---------------------------- MODULE Spec2Model ----------------------------
(***************************************************************************)
(* Model of the OfficeX drive canister (officex-canisters-backend/lib.rs): *)
(* the folder/file metadata store, its two path indexes, the id counter    *)
(* and the canister's update endpoints; and of the factory canister        *)
(* (factory-canister/lib.rs) that provisions drive canisters.              *)
(*                                                                         *)
(* Strings are sequences of symbols.  A symbol is one character, except    *)
(* that the display name of a storage location ("BrowserCache", ...) is    *)
(* one symbol: it contains neither ':' nor '/' nor '.'.                    *)
(* Option<T> is a sequence: None is <<>> and Some(x) is <<x>>.             *)
(* A store value is a record with the fields of State plus ID_COUNTER; the *)
(* methods of State are operators from a store to a store and a result.    *)
(* A trap (a Rust panic inside an update call) rolls the call back.        *)
(***************************************************************************)
EXTENDS Integers, Sequences, FiniteSets

VARIABLES
    folder_uuid_to_metadata,   \* FolderUUID -> FolderMetadata
    file_uuid_to_metadata,     \* FileUUID -> FileMetadata
    full_folder_path_to_uuid,  \* DriveFullFilePath -> FolderUUID
    full_file_path_to_uuid,    \* DriveFullFilePath -> FileUUID
    ID_COUNTER,                \* thread_local ID_COUNTER
    owner,                     \* State.owner
    last,                      \* the last call: endpoint, arguments, reply
    calls,                     \* the number of update calls so far
    drives_counter,            \* factory State.drives_counter
    user_drive_directory,      \* factory Principal -> DriveCanisterId
    drives_directory,          \* factory u64 -> DriveCanisterId
    drive_calls,               \* the create_drive calls: position and reply
    canisters                  \* the canisters of the management canister

\* The drive canister and the calls made to it
driveVars == <<folder_uuid_to_metadata, file_uuid_to_metadata,
               full_folder_path_to_uuid, full_file_path_to_uuid,
               ID_COUNTER, owner, last, calls>>

\* The factory canister, the calls made to it and the canisters it created
factoryVars == <<drives_counter, user_drive_directory, drives_directory,
                 drive_calls, canisters>>

vars == <<driveVars, factoryVars>>

-----------------------------------------------------------------------------
(* Bounds and input sets *)

\* The number of update calls a behaviour makes.
MaxCalls == 4

\* Nanoseconds in a millisecond (time() / 1_000_000).
NS_PER_MS == 1000000

None == <<>>
Some(x) == <<x>>

StorageLocationEnum == {"BrowserCache", "HardDrive", "Web3Storj"}

\* fmt::Display for StorageLocationEnum
LocToString(loc) == <<loc>>

Installer == "alice"
Stranger == "mallory"

-----------------------------------------------------------------------------
(* String primitives of the Rust standard library, on symbol sequences *)

SetMin(S) == CHOOSE x \in S : \A y \in S : x <= y
SetMax(S) == CHOOSE x \in S : \A y \in S : x >= y

Drop(s, n) == SubSeq(s, n + 1, Len(s))
Take(s, n) == SubSeq(s, 1, n)

\* str::find: index of the first occurrence of pat in s, 0 when there is none
Find(s, pat) ==
    LET I == {i \in 1..(Len(s) - Len(pat) + 1) : SubSeq(s, i, i + Len(pat) - 1) = pat}
    IN IF I = {} THEN 0 ELSE SetMin(I)

\* str::rfind for a single character
RFind(s, ch) ==
    LET I == {i \in 1..Len(s) : s[i] = ch}
    IN IF I = {} THEN 0 ELSE SetMax(I)

\* str::splitn(2, pat).collect()
SplitN2(s, pat) ==
    LET i == Find(s, pat)
    IN IF i = 0 THEN <<s>> ELSE <<Take(s, i - 1), Drop(s, i + Len(pat) - 1)>>

\* str::rsplitn(2, ch).collect(): the last piece comes first
RSplitN2(s, ch) ==
    LET i == RFind(s, ch)
    IN IF i = 0 THEN <<s>> ELSE <<Drop(s, i), Take(s, i - 1)>>

\* str::split(pat).collect(), pat not empty
RECURSIVE Split(_, _)
Split(s, pat) ==
    LET i == Find(s, pat)
    IN IF i = 0 THEN <<s>>
       ELSE <<Take(s, i - 1)>> \o Split(Drop(s, i + Len(pat) - 1), pat)

NonEmpty(x) == x # <<>>

\* split('/').filter(|x| !x.is_empty())
Segments(s) == SelectSeq(Split(s, <<"/">>), NonEmpty)

\* str::replace(from, to): every non-overlapping occurrence, left to right
RECURSIVE ReplaceNonEmpty(_, _, _)
ReplaceNonEmpty(s, from, to) ==
    IF Len(s) < Len(from) THEN s
    ELSE IF Take(s, Len(from)) = from
         THEN to \o ReplaceNonEmpty(Drop(s, Len(from)), from, to)
         ELSE <<s[1]>> \o ReplaceNonEmpty(Tail(s), from, to)

RECURSIVE Interleave(_, _)
Interleave(s, to) ==
    IF s = <<>> THEN to ELSE to \o <<s[1]>> \o Interleave(Tail(s), to)

Replace(s, from, to) ==
    IF from = <<>> THEN Interleave(s, to) ELSE ReplaceNonEmpty(s, from, to)

\* path_part.replace(':', ";")
ReplaceChar(s, a, b) == [i \in 1..Len(s) |-> IF s[i] = a THEN b ELSE s[i]]

\* Regex "/+" replaced by "/"
RECURSIVE CollapseSlashes(_)
CollapseSlashes(s) ==
    IF Len(s) < 2 THEN s
    ELSE IF s[1] = "/" /\ s[2] = "/" THEN CollapseSlashes(Tail(s))
         ELSE <<s[1]>> \o CollapseSlashes(Tail(s))

RECURSIVE TrimStart(_, _)
TrimStart(s, ch) ==
    IF s # <<>> /\ s[1] = ch THEN TrimStart(Tail(s), ch) ELSE s

\* str::trim_end_matches(ch)
RECURSIVE TrimEnd(_, _)
TrimEnd(s, ch) ==
    IF s # <<>> /\ s[Len(s)] = ch THEN TrimEnd(Take(s, Len(s) - 1), ch) ELSE s

\* str::trim_matches(ch)
TrimMatches(s, ch) == TrimEnd(TrimStart(s, ch), ch)

EndsWith(s, ch) == s # <<>> /\ s[Len(s)] = ch

\* name.rsplit('.').next().unwrap_or("")
Extension(name) == RSplitN2(name, ".")[1]

\* Vec::retain(|x| x != v)
Retain(vec, v) == LET Keep(x) == x # v IN SelectSeq(vec, Keep)

\* Vec::contains
Contains(vec, v) == \E i \in 1..Len(vec) : vec[i] = v

\* HashMap::insert and HashMap::remove
MapInsert(m, k, v) == [x \in DOMAIN m \cup {k} |-> IF x = k THEN v ELSE m[x]]
MapRemove(m, k) == [x \in DOMAIN m \ {k} |-> m[x]]
EmptyMap == [x \in {} |-> x]

\* let x = e; body
With(e, Body(_)) == Body(e)

\* [a, b, c].join(sep)
RECURSIVE Join(_, _)
Join(parts, sep) ==
    IF parts = <<>> THEN <<>>
    ELSE IF Len(parts) = 1 THEN parts[1]
         ELSE parts[1] \o sep \o Join(Tail(parts), sep)

-----------------------------------------------------------------------------
(* The store *)

\* STATE and ID_COUNTER as one value
Store == [folder_uuid_to_metadata |-> folder_uuid_to_metadata,
          file_uuid_to_metadata |-> file_uuid_to_metadata,
          full_folder_path_to_uuid |-> full_folder_path_to_uuid,
          full_file_path_to_uuid |-> full_file_path_to_uuid,
          ID_COUNTER |-> ID_COUNTER]

\* State::new
NewStore == [folder_uuid_to_metadata |-> EmptyMap,
             file_uuid_to_metadata |-> EmptyMap,
             full_folder_path_to_uuid |-> EmptyMap,
             full_file_path_to_uuid |-> EmptyMap,
             ID_COUNTER |-> 0]

\* The SHA-256 digest of "canister-time-caller-counter", taken to be free of
\* collisions: the digest is identified with the tuple it hashes.
Sha256(current_time, caller, current_counter) ==
    <<current_time, caller, current_counter>>

\* A faulty variant of GenerateUniqueId: the counter is read and not advanced
GenerateUniqueIdSameCounter(s, caller, now) ==
    [s |-> s, id |-> Sha256(now, caller, s.ID_COUNTER)]

\* generate_unique_id
GenerateUniqueId(s, caller, now) ==
    [s |-> [s EXCEPT !.ID_COUNTER = s.ID_COUNTER + 1],
     id |-> Sha256(now, caller, s.ID_COUNTER)]

\* State::sanitize_file_path
SanitizeFilePath(file_path) ==
    With(SplitN2(file_path, <<":", ":">>), LAMBDA parts :
        parts[1] \o <<":", ":">>
        \o TrimMatches(CollapseSlashes(ReplaceChar(
               IF Len(parts) = 2 THEN parts[2] ELSE <<>>, ":", ";")), "/"))

\* State::split_path: <<folder_path, file_name>>
SplitPath(full_path) ==
    With(RSplitN2(full_path, "/"), LAMBDA parts :
        IF Len(parts) = 2 THEN <<parts[2], parts[1]>>
        ELSE With(SplitN2(parts[1], <<":", ":">>), LAMBDA storage_parts :
                 IF Len(storage_parts) = 2
                 THEN <<storage_parts[1] \o <<":", ":">>, storage_parts[2]>>
                 ELSE <<<<>>, parts[1]>>))

\* The FolderMetadata literal of create_folder, ensure_folder_structure and
\* ensure_root_folder
NewFolderMetadata(id, name, parent, path, user_id, storage_location, now) ==
    [id |-> id,
     original_folder_name |-> name,
     parent_folder_uuid |-> parent,
     subfolder_uuids |-> <<>>,
     file_uuids |-> <<>>,
     full_folder_path |-> path,
     tags |-> <<>>,
     owner |-> user_id,
     created_date |-> now,
     storage_location |-> storage_location,
     last_changed_unix_ms |-> now \div NS_PER_MS,
     deleted |-> FALSE]

\* full_folder_path_to_uuid.insert(path, id); folder_uuid_to_metadata.insert(id, folder)
InsertFolder(s, path, folder) ==
    [s EXCEPT !.full_folder_path_to_uuid = MapInsert(@, path, folder.id),
              !.folder_uuid_to_metadata = MapInsert(@, folder.id, folder)]

\* A faulty variant of EnsureRootFolder: a root is created whether or not one
\* is bound
EnsureRootFolderAnew(s, storage_location, user_id, now) ==
    With(LocToString(storage_location) \o <<":", ":">>, LAMBDA root_path :
    With(GenerateUniqueId(s, user_id, now), LAMBDA g :
        [s |-> InsertFolder(g.s, root_path,
                   NewFolderMetadata(g.id, <<>>, None, root_path,
                                     user_id, storage_location, now)),
         id |-> g.id]))

\* State::ensure_root_folder: the store and the root's id
EnsureRootFolder(s, storage_location, user_id, now) ==
    With(LocToString(storage_location) \o <<":", ":">>, LAMBDA root_path :
        IF root_path \in DOMAIN s.full_folder_path_to_uuid
        THEN [s |-> s, id |-> s.full_folder_path_to_uuid[root_path]]
        ELSE With(GenerateUniqueId(s, user_id, now), LAMBDA g :
                 [s |-> InsertFolder(g.s, root_path,
                            NewFolderMetadata(g.id, <<>>, None, root_path,
                                              user_id, storage_location, now)),
                  id |-> g.id]))

\* if let Some(parent) = folder_uuid_to_metadata.get_mut(parent) { push }, with
\* or without the !contains guard
PushSubfolder(s, parent_uuid, new_uuid, unless_present) ==
    IF parent_uuid \in DOMAIN s.folder_uuid_to_metadata
       /\ ~(unless_present
            /\ Contains(s.folder_uuid_to_metadata[parent_uuid].subfolder_uuids, new_uuid))
    THEN [s EXCEPT !.folder_uuid_to_metadata[parent_uuid].subfolder_uuids =
                       Append(@, new_uuid)]
    ELSE s

\* A faulty variant of CreateMissingFolder: the new folder is not pushed to
\* its parent's subfolder_uuids
CreateMissingFolderUnlinked(s, part, path, parent_uuid, storage_location, user_id, now, guarded) ==
    With(GenerateUniqueId(s, user_id, now), LAMBDA g :
    With(NewFolderMetadata(g.id, part, Some(parent_uuid), path,
                           user_id, storage_location, now), LAMBDA new_folder :
        [s |-> InsertFolder(g.s, path, new_folder),
         folder |-> new_folder]))

\* The body of both folder-creating loops: a new folder at path under
\* parent_uuid; the store and the new record
CreateMissingFolder(s, part, path, parent_uuid, storage_location, user_id, now, guarded) ==
    With(GenerateUniqueId(s, user_id, now), LAMBDA g :
    With(NewFolderMetadata(g.id, part, Some(parent_uuid), path,
                           user_id, storage_location, now), LAMBDA new_folder :
        [s |-> PushSubfolder(InsertFolder(g.s, path, new_folder),
                             parent_uuid, g.id, guarded),
         folder |-> new_folder]))

\* The loop of State::ensure_folder_structure from part i on
RECURSIVE EnsureFolderLoop(_, _, _, _, _, _, _, _)
EnsureFolderLoop(s, parts, i, current_path, parent_uuid, storage_location, user_id, now) ==
    IF i > Len(parts) THEN [s |-> s, id |-> parent_uuid]
    ELSE With(current_path \o parts[i] \o <<"/">>, LAMBDA path :
             IF path \notin DOMAIN s.full_folder_path_to_uuid
             THEN With(CreateMissingFolder(s, parts[i], path, parent_uuid,
                                           storage_location, user_id, now, TRUE),
                       LAMBDA c :
                           EnsureFolderLoop(c.s, parts, i + 1, path, c.folder.id,
                                            storage_location, user_id, now))
             ELSE EnsureFolderLoop(s, parts, i + 1, path,
                                   s.full_folder_path_to_uuid[path],
                                   storage_location, user_id, now))

\* State::ensure_folder_structure: the store and the folder's id; path_parts[1]
\* panics when folder_path holds no "::"
EnsureFolderStructure(s, folder_path, storage_location, user_id, now) ==
    With(Split(folder_path, <<":", ":">>), LAMBDA path_parts :
        IF Len(path_parts) < 2 THEN [s |-> s, id |-> None, trap |-> TRUE]
        ELSE With(EnsureRootFolder(s, storage_location, user_id, now), LAMBDA root :
             With(EnsureFolderLoop(root.s, Segments(path_parts[2]), 1,
                                   path_parts[1] \o <<":", ":">>, root.id,
                                   storage_location, user_id, now), LAMBDA r :
                 [s |-> r.s, id |-> r.id, trap |-> FALSE])))

\* The loop of State::create_folder from part i on
RECURSIVE CreateFolderLoop(_, _, _, _, _, _, _, _)
CreateFolderLoop(s, parts, i, current_path, parent_uuid, storage_location, user_id, now) ==
    IF i > Len(parts)
    THEN [s |-> s, res |-> "Folder already exists", ret |-> None]
    ELSE With(current_path \o parts[i] \o <<"/">>, LAMBDA path :
             IF path \notin DOMAIN s.full_folder_path_to_uuid
             THEN With(CreateMissingFolder(s, parts[i], path, parent_uuid,
                                           storage_location, user_id, now, FALSE),
                       LAMBDA c :
                           IF i = Len(parts)
                           THEN [s |-> c.s, res |-> "Ok", ret |-> Some(c.folder)]
                           ELSE CreateFolderLoop(c.s, parts, i + 1, path, c.folder.id,
                                                 storage_location, user_id, now))
             ELSE CreateFolderLoop(s, parts, i + 1, path,
                                   s.full_folder_path_to_uuid[path],
                                   storage_location, user_id, now))

\* State::create_folder from "Split the path into storage and folder parts" on
CreateFolderAt(s, parts, storage_location, user_id, now) ==
    IF Len(parts) < 2
    THEN [s |-> s, res |-> "Invalid folder path format", ret |-> None]
    ELSE IF parts[1] # LocToString(storage_location)
         THEN [s |-> s, res |-> "Storage location mismatch", ret |-> None]
         ELSE With(Segments(Join(Tail(parts), <<":", ":">>)), LAMBDA path_parts :
              With(EnsureRootFolder(s, storage_location, user_id, now), LAMBDA root :
                  IF path_parts = <<>>
                  THEN IF root.id \in DOMAIN root.s.folder_uuid_to_metadata
                       THEN [s |-> root.s, res |-> "Ok",
                             ret |-> Some(root.s.folder_uuid_to_metadata[root.id])]
                       ELSE [s |-> root.s, res |-> "Parent folder not found",
                             ret |-> None]
                  ELSE CreateFolderLoop(root.s, path_parts, 1,
                                        parts[1] \o <<":", ":">>, root.id,
                                        storage_location, user_id, now)))

\* State::create_folder
CreateFolder(s, full_folder_path, storage_location, user_id, now) ==
    With(SanitizeFilePath(full_folder_path), LAMBDA sanitized :
        CreateFolderAt(s,
                       Split(IF EndsWith(sanitized, "/") THEN sanitized
                             ELSE sanitized \o <<"/">>, <<":", ":">>),
                       storage_location, user_id, now))

\* State::update_folder_file_uuids
UpdateFolderFileUuids(s, folder_uuid, file_uuid, is_add) ==
    IF folder_uuid \notin DOMAIN s.folder_uuid_to_metadata THEN s
    ELSE IF is_add
         THEN IF Contains(s.folder_uuid_to_metadata[folder_uuid].file_uuids, file_uuid)
              THEN s
              ELSE [s EXCEPT !.folder_uuid_to_metadata[folder_uuid].file_uuids =
                                 Append(@, file_uuid)]
         ELSE [s EXCEPT !.folder_uuid_to_metadata[folder_uuid].file_uuids =
                            Retain(@, file_uuid)]

\* A faulty variant of LinkPriorVersion: the prior version stays listed in
\* the folder
LinkPriorVersionKeepingListed(s, folder_uuid, existing_file_uuid, new_file_uuid) ==
    IF existing_file_uuid = None THEN s
    ELSE IF existing_file_uuid[1] \in DOMAIN s.file_uuid_to_metadata
         THEN [s EXCEPT !.file_uuid_to_metadata[existing_file_uuid[1]].next_version =
                            Some(new_file_uuid)]
         ELSE s

\* "Update prior version if it exists" in State::upsert_file_to_hash_tables
LinkPriorVersion(s, folder_uuid, existing_file_uuid, new_file_uuid) ==
    IF existing_file_uuid = None THEN s
    ELSE UpdateFolderFileUuids(
             IF existing_file_uuid[1] \in DOMAIN s.file_uuid_to_metadata
             THEN [s EXCEPT !.file_uuid_to_metadata[existing_file_uuid[1]].next_version =
                                Some(new_file_uuid)]
             ELSE s,
             folder_uuid, existing_file_uuid[1], FALSE)

\* A faulty variant of NewFileMetadata: the record names no prior version
NewFileMetadataWithoutPrior(id, file_name, folder_uuid, file_version, prior_version, full_file_path, user_id, storage_location, now) ==
    [id |-> id,
     original_file_name |-> file_name,
     folder_uuid |-> folder_uuid,
     file_version |-> file_version,
     prior_version |-> None,
     next_version |-> None,
     extension |-> Extension(file_name),
     full_file_path |-> full_file_path,
     tags |-> <<>>,
     owner |-> user_id,
     created_date |-> now,
     storage_location |-> storage_location,
     file_size |-> 0,
     raw_url |-> <<>>,
     last_changed_unix_ms |-> now \div NS_PER_MS,
     deleted |-> FALSE]

\* The FileMetadata literal of State::upsert_file_to_hash_tables
NewFileMetadata(id, file_name, folder_uuid, file_version, prior_version, full_file_path, user_id, storage_location, now) ==
    [id |-> id,
     original_file_name |-> file_name,
     folder_uuid |-> folder_uuid,
     file_version |-> file_version,
     prior_version |-> prior_version,
     next_version |-> None,
     extension |-> Extension(file_name),
     full_file_path |-> full_file_path,
     tags |-> <<>>,
     owner |-> user_id,
     created_date |-> now,
     storage_location |-> storage_location,
     file_size |-> 0,
     raw_url |-> <<>>,
     last_changed_unix_ms |-> now \div NS_PER_MS,
     deleted |-> FALSE]

\* full_file_path_to_uuid.get(&full_file_path).cloned()
LookupFile(s, full_file_path) ==
    IF full_file_path \in DOMAIN s.full_file_path_to_uuid
    THEN Some(s.full_file_path_to_uuid[full_file_path])
    ELSE None

\* State::upsert_file_to_hash_tables from the lookup of the existing file on;
\* s0 is the store at the call, for a trap (unwrap of a missing record)
UpsertFileInto(s0, s, new_file_uuid, folder_uuid, file_name, full_file_path, storage_location, user_id, now) ==
    With(LookupFile(s, full_file_path), LAMBDA existing_file_uuid :
        IF existing_file_uuid # None
           /\ existing_file_uuid[1] \notin DOMAIN s.file_uuid_to_metadata
        THEN [s |-> s0, res |-> "Trap", ret |-> None]
        ELSE With(NewFileMetadata(
                      new_file_uuid, file_name, folder_uuid,
                      IF existing_file_uuid # None
                      THEN s.file_uuid_to_metadata[existing_file_uuid[1]].file_version + 1
                      ELSE 1,
                      existing_file_uuid, full_file_path, user_id,
                      storage_location, now), LAMBDA file_metadata :
                 [s |-> LinkPriorVersion(
                            UpdateFolderFileUuids(
                                [s EXCEPT
                                   !.file_uuid_to_metadata =
                                       MapInsert(@, new_file_uuid, file_metadata),
                                   !.full_file_path_to_uuid =
                                       MapInsert(@, full_file_path, new_file_uuid)],
                                folder_uuid, new_file_uuid, TRUE),
                            folder_uuid, existing_file_uuid, new_file_uuid),
                  res |-> "Ok",
                  ret |-> Some(new_file_uuid)]))

\* State::upsert_file_to_hash_tables
UpsertFileToHashTables(s, file_path, storage_location, user_id, now) ==
    With(SanitizeFilePath(file_path), LAMBDA full_file_path :
    With(GenerateUniqueId(s, user_id, now), LAMBDA g :
    With(SplitPath(full_file_path), LAMBDA split :
    With(EnsureFolderStructure(g.s, split[1], storage_location, user_id, now),
         LAMBDA ens :
             IF ens.trap THEN [s |-> s, res |-> "Trap", ret |-> None]
             ELSE UpsertFileInto(s, ens.s, g.id, ens.id, split[2], full_file_path,
                                 storage_location, user_id, now)))))

\* A path update of a file that leaves the file path index as it is
UpdateFilePathRecordOnly(s, file_id, old_path, new_path) ==
    IF file_id \notin DOMAIN s.file_uuid_to_metadata THEN s
    ELSE [s EXCEPT !.file_uuid_to_metadata[file_id].full_file_path =
                       Replace(@, old_path, new_path)]

\* One file of the "Update file paths" loop of State::update_subfolder_paths
UpdateFilePath(s, file_id, old_path, new_path) ==
    IF file_id \notin DOMAIN s.file_uuid_to_metadata THEN s
    ELSE With(s.file_uuid_to_metadata[file_id].full_file_path, LAMBDA old_file_path :
         With(Replace(old_file_path, old_path, new_path), LAMBDA new_file_path :
             [s EXCEPT
                !.file_uuid_to_metadata[file_id].full_file_path = new_file_path,
                !.full_file_path_to_uuid =
                    MapInsert(MapRemove(@, old_file_path), new_file_path, file_id)]))

\* The "Update file paths" loop over the cloned file_uuids from i on
RECURSIVE UpdateFilesFrom(_, _, _, _, _)
UpdateFilesFrom(s, file_uuids, i, old_path, new_path) ==
    IF i > Len(file_uuids) THEN s
    ELSE UpdateFilesFrom(UpdateFilePath(s, file_uuids[i], old_path, new_path),
                         file_uuids, i + 1, old_path, new_path)

\* One subfolder of the first loop of State::update_subfolder_paths, before
\* the recursive call
UpdateSubfolderPath(s, subfolder_id, old_subfolder_path, new_subfolder_path) ==
    [s EXCEPT
       !.folder_uuid_to_metadata[subfolder_id].full_folder_path = new_subfolder_path,
       !.full_folder_path_to_uuid =
           MapInsert(MapRemove(@, old_subfolder_path), new_subfolder_path, subfolder_id)]

\* State::update_subfolder_paths and its subfolder loop over the cloned
\* subfolder_uuids from i on
RECURSIVE UpdateSubfolderPaths(_, _, _, _), UpdateSubfoldersFrom(_, _, _, _, _)
UpdateSubfoldersFrom(s, subfolder_uuids, i, old_path, new_path) ==
    IF i > Len(subfolder_uuids) THEN s
    ELSE IF subfolder_uuids[i] \notin DOMAIN s.folder_uuid_to_metadata
         THEN UpdateSubfoldersFrom(s, subfolder_uuids, i + 1, old_path, new_path)
         ELSE With(s.folder_uuid_to_metadata[subfolder_uuids[i]].full_folder_path,
                   LAMBDA old_subfolder_path :
              With(Replace(old_subfolder_path, old_path, new_path),
                   LAMBDA new_subfolder_path :
                  UpdateSubfoldersFrom(
                      UpdateSubfolderPaths(
                          UpdateSubfolderPath(s, subfolder_uuids[i],
                                              old_subfolder_path, new_subfolder_path),
                          subfolder_uuids[i], old_subfolder_path, new_subfolder_path),
                      subfolder_uuids, i + 1, old_path, new_path)))

UpdateSubfolderPaths(s, folder_id, old_path, new_path) ==
    IF folder_id \notin DOMAIN s.folder_uuid_to_metadata THEN s
    ELSE UpdateFilesFrom(
             UpdateSubfoldersFrom(s, s.folder_uuid_to_metadata[folder_id].subfolder_uuids,
                                  1, old_path, new_path),
             s.folder_uuid_to_metadata[folder_id].file_uuids, 1, old_path, new_path)

\* The parent lookup that ends State::rename_folder
RenameFolderParent(s, folder_id, storage_part, parent_path) ==
    IF parent_path = <<>> THEN [s |-> s, res |-> "Ok"]
    ELSE With(storage_part \o <<":", ":">> \o parent_path, LAMBDA parent_full_path :
             IF parent_full_path \in DOMAIN s.full_folder_path_to_uuid
             THEN [s |-> PushSubfolder(s, s.full_folder_path_to_uuid[parent_full_path],
                                       folder_id, TRUE),
                   res |-> "Ok"]
             ELSE [s |-> s, res |-> "Parent folder not found"])

\* "Construct the new folder path" in State::rename_folder
NewFolderPath(storage_part, parent_path, new_name) ==
    IF parent_path = <<>>
    THEN storage_part \o <<":", ":">> \o new_name \o <<"/">>
    ELSE storage_part \o <<":", ":">> \o parent_path \o <<"/">> \o new_name \o <<"/">>

\* State::rename_folder from the collision check on
RenameFolderTo(s, folder_id, new_name, old_path, storage_part, parent_path, new_folder_path, now) ==
    IF new_folder_path \in DOMAIN s.full_folder_path_to_uuid
    THEN [s |-> s,
          res |-> "A folder with the new name already exists in the parent directory"]
    ELSE RenameFolderParent(
             UpdateSubfolderPaths(
                 [s EXCEPT
                    !.folder_uuid_to_metadata[folder_id].original_folder_name = new_name,
                    !.folder_uuid_to_metadata[folder_id].full_folder_path = new_folder_path,
                    !.folder_uuid_to_metadata[folder_id].last_changed_unix_ms =
                        now \div NS_PER_MS,
                    !.full_folder_path_to_uuid =
                        MapInsert(MapRemove(@, old_path), new_folder_path, folder_id)],
                 folder_id, old_path, new_folder_path),
             folder_id, storage_part, parent_path)

\* The parent path of State::rename_folder: folder_path.rsplitn(2, '/')
ParentPath(folder_path) ==
    With(RSplitN2(folder_path, "/"), LAMBDA path_parts :
        IF Len(path_parts) = 2 THEN path_parts[2] ELSE <<>>)

\* State::rename_folder
RenameFolder(s, folder_id, new_name, now) ==
    IF folder_id \notin DOMAIN s.folder_uuid_to_metadata
    THEN [s |-> s, res |-> "Folder not found"]
    ELSE With(s.folder_uuid_to_metadata[folder_id].full_folder_path, LAMBDA old_path :
         With(SplitN2(old_path, <<":", ":">>), LAMBDA parts :
             IF Len(parts) # 2 THEN [s |-> s, res |-> "Invalid folder structure"]
             ELSE With(ParentPath(TrimEnd(parts[2], "/")), LAMBDA parent_path :
                      RenameFolderTo(s, folder_id, new_name, old_path, parts[1],
                                     parent_path,
                                     NewFolderPath(parts[1], parent_path, new_name),
                                     now))))

\* "Split the file path and replace the last part" in State::rename_file
NewFilePath(storage_part, file_path, new_name) ==
    With(RSplitN2(file_path, "/"), LAMBDA path_parts :
        IF Len(path_parts) > 1
        THEN storage_part \o <<":", ":">> \o path_parts[2] \o <<"/">> \o new_name
        ELSE storage_part \o <<":", ":">> \o new_name)

\* A rename_file that writes the new name before it checks the new path
RenameFileBeforeCheck(s, file_id, new_name, old_path, new_path, now) ==
    IF new_path \in DOMAIN s.full_file_path_to_uuid
    THEN [s |-> [s EXCEPT !.file_uuid_to_metadata[file_id].original_file_name =
                              new_name \o new_name],
          res |-> "A file with this name already exists"]
    ELSE [s |-> [s EXCEPT
                   !.file_uuid_to_metadata[file_id].original_file_name = new_name,
                   !.file_uuid_to_metadata[file_id].full_file_path = new_path,
                   !.file_uuid_to_metadata[file_id].last_changed_unix_ms =
                       now \div NS_PER_MS,
                   !.file_uuid_to_metadata[file_id].extension = Extension(new_name),
                   !.full_file_path_to_uuid =
                       MapInsert(MapRemove(@, old_path), new_path, file_id)],
          res |-> "Ok"]

\* State::rename_file from the collision check on
RenameFileTo(s, file_id, new_name, old_path, new_path, now) ==
    IF new_path \in DOMAIN s.full_file_path_to_uuid
    THEN [s |-> s, res |-> "A file with this name already exists"]
    ELSE [s |-> [s EXCEPT
                   !.file_uuid_to_metadata[file_id].original_file_name = new_name,
                   !.file_uuid_to_metadata[file_id].full_file_path = new_path,
                   !.file_uuid_to_metadata[file_id].last_changed_unix_ms =
                       now \div NS_PER_MS,
                   !.file_uuid_to_metadata[file_id].extension = Extension(new_name),
                   !.full_file_path_to_uuid =
                       MapInsert(MapRemove(@, old_path), new_path, file_id)],
          res |-> "Ok"]

\* State::rename_file
RenameFile(s, file_id, new_name, now) ==
    IF file_id \notin DOMAIN s.file_uuid_to_metadata
    THEN [s |-> s, res |-> "File not found"]
    ELSE With(s.file_uuid_to_metadata[file_id].full_file_path, LAMBDA old_path :
         With(SplitN2(old_path, <<":", ":">>), LAMBDA parts :
             IF Len(parts) # 2 THEN [s |-> s, res |-> "Invalid file structure"]
             ELSE RenameFileTo(s, file_id, new_name, old_path,
                               NewFilePath(parts[1], parts[2], new_name), now)))

\* if let Some(v) = link { if let Some(f) = file_uuid_to_metadata.get_mut(v) { .. } }
Relink(s, link, field, value) ==
    IF link # None /\ link[1] \in DOMAIN s.file_uuid_to_metadata
    THEN IF field = "next_version"
         THEN [s EXCEPT !.file_uuid_to_metadata[link[1]].next_version = value]
         ELSE [s EXCEPT !.file_uuid_to_metadata[link[1]].prior_version = value]
    ELSE s

\* State::delete_file
DeleteFile(s, file_id) ==
    IF file_id \notin DOMAIN s.file_uuid_to_metadata
    THEN [s |-> s, res |-> "File not found"]
    ELSE With(s.file_uuid_to_metadata[file_id], LAMBDA file :
             [s |-> Relink(
                        Relink([s EXCEPT
                                  !.file_uuid_to_metadata = MapRemove(@, file_id),
                                  !.full_file_path_to_uuid =
                                      MapRemove(@, file.full_file_path)],
                               file.prior_version, "next_version", file.next_version),
                        file.next_version, "prior_version", file.prior_version),
              res |-> "Ok"])

\* The ? operator: go on with the store of a call that returned Ok
Try(r, Then(_)) == IF r.res # "Ok" THEN r ELSE Then(r.s)

\* The file loop of State::delete_folder from i on
RECURSIVE DeleteFilesFrom(_, _, _)
DeleteFilesFrom(s, file_ids, i) ==
    IF i > Len(file_ids) THEN [s |-> s, res |-> "Ok"]
    ELSE Try(DeleteFile(s, file_ids[i]),
             LAMBDA s1 : DeleteFilesFrom(s1, file_ids, i + 1))

\* The tail of State::delete_folder: "Mark the folder as deleted"
MarkFolderDeleted(s, folder_id, now) ==
    IF folder_id \in DOMAIN s.folder_uuid_to_metadata
    THEN [s EXCEPT !.folder_uuid_to_metadata[folder_id].last_changed_unix_ms =
                       now \div NS_PER_MS,
                   !.folder_uuid_to_metadata[folder_id].deleted = TRUE]
    ELSE s

\* State::delete_folder and its subfolder loop from i on
RECURSIVE DeleteFolder(_, _, _), DeleteSubfoldersFrom(_, _, _, _)
DeleteSubfoldersFrom(s, subfolder_ids, i, now) ==
    IF i > Len(subfolder_ids) THEN [s |-> s, res |-> "Ok"]
    ELSE Try(DeleteFolder(s, subfolder_ids[i], now),
             LAMBDA s1 : DeleteSubfoldersFrom(s1, subfolder_ids, i + 1, now))

DeleteFolder(s, folder_id, now) ==
    IF folder_id \notin DOMAIN s.folder_uuid_to_metadata
    THEN [s |-> s, res |-> "Folder not found"]
    ELSE With(s.folder_uuid_to_metadata[folder_id], LAMBDA folder :
             Try(DeleteSubfoldersFrom(
                     [s EXCEPT !.full_folder_path_to_uuid =
                                   MapRemove(@, folder.full_folder_path)],
                     folder.subfolder_uuids, 1, now),
                 LAMBDA s2 :
                     Try(DeleteFilesFrom(s2, folder.file_uuids, 1),
                         LAMBDA s3 :
                             [s |-> MarkFolderDeleted(s3, folder_id, now),
                              res |-> "Ok"])))

\* The later of two timestamps
LaterOf(a, b) == IF a < b THEN b ELSE a

\* u64 bitwise or
RECURSIVE BitOr(_, _)
BitOr(a, b) ==
    IF a = 0 THEN b
    ELSE IF b = 0 THEN a
         ELSE (IF a % 2 = 1 \/ b % 2 = 1 THEN 1 ELSE 0) + 2 * BitOr(a \div 2, b \div 2)

\* A clean-up that leaves the folder's list as it is
KeepVersionChainListed(s, folder_uuid, current_version) == s

\* "Clean up version chain in folder": the while loop of
\* State::upsert_cloud_file_with_local_sync over the prior chain of file_id
RECURSIVE CleanUpVersionChain(_, _, _)
CleanUpVersionChain(s, folder_uuid, current_version) ==
    IF current_version = None
       \/ current_version[1] \notin DOMAIN s.file_uuid_to_metadata
    THEN s
    ELSE CleanUpVersionChain(
             [s EXCEPT !.folder_uuid_to_metadata[folder_uuid].file_uuids =
                           Retain(@, current_version[1])],
             folder_uuid,
             s.file_uuid_to_metadata[current_version[1]].prior_version)

\* A faulty variant of SyncedFileMetadata: the new record keeps the version
\* number of the existing one
SyncedFileMetadataSameVersion(id, file_name, folder_uuid, existing_file, full_file_path, file_metadata, user_id, now) ==
    [id |-> id,
     original_file_name |-> file_name,
     folder_uuid |-> folder_uuid,
     file_version |-> existing_file.file_version,
     prior_version |-> Some(existing_file.id),
     next_version |-> None,
     extension |-> Extension(file_name),
     full_file_path |-> full_file_path,
     tags |-> <<>>,
     owner |-> user_id,
     created_date |-> file_metadata.created_date,
     storage_location |-> file_metadata.storage_location,
     file_size |-> file_metadata.file_size,
     raw_url |-> file_metadata.raw_url,
     last_changed_unix_ms |->
         BitOr(file_metadata.last_changed_unix_ms, now \div NS_PER_MS),
     deleted |-> file_metadata.deleted]

\* The FileMetadata literal of State::upsert_cloud_file_with_local_sync
SyncedFileMetadata(id, file_name, folder_uuid, existing_file, full_file_path, file_metadata, user_id, now) ==
    [id |-> id,
     original_file_name |-> file_name,
     folder_uuid |-> folder_uuid,
     file_version |-> existing_file.file_version + 1,
     prior_version |-> Some(existing_file.id),
     next_version |-> None,
     extension |-> Extension(file_name),
     full_file_path |-> full_file_path,
     tags |-> <<>>,
     owner |-> user_id,
     created_date |-> file_metadata.created_date,
     storage_location |-> file_metadata.storage_location,
     file_size |-> file_metadata.file_size,
     raw_url |-> file_metadata.raw_url,
     last_changed_unix_ms |->
         BitOr(file_metadata.last_changed_unix_ms, now \div NS_PER_MS),
     deleted |-> file_metadata.deleted]

\* "Update parent folder's file_uuids (only add new version)"
AddOnlyNewVersion(s, folder_uuid, new_file_uuid) ==
    IF folder_uuid \in DOMAIN s.folder_uuid_to_metadata
    THEN [s EXCEPT !.folder_uuid_to_metadata[folder_uuid].file_uuids =
                       Append(Retain(@, new_file_uuid), new_file_uuid)]
    ELSE s

\* State::upsert_cloud_file_with_local_sync from "Clean up version chain in
\* folder" on
SyncFileInto(s, file_id, existing_file, new_file_uuid, folder_uuid, new_file_name, new_full_file_path, file_metadata, user_id, now) ==
    With(SyncedFileMetadata(new_file_uuid, new_file_name, folder_uuid, existing_file,
                            new_full_file_path, file_metadata, user_id, now),
         LAMBDA new_file_metadata :
    With(IF folder_uuid \in DOMAIN s.folder_uuid_to_metadata
         THEN CleanUpVersionChain(s, folder_uuid, Some(file_id))
         ELSE s, LAMBDA s1 :
    With(AddOnlyNewVersion(
             [s1 EXCEPT
                !.file_uuid_to_metadata = MapInsert(@, new_file_uuid, new_file_metadata),
                !.full_file_path_to_uuid =
                    MapInsert(@, new_full_file_path, new_file_uuid)],
             folder_uuid, new_file_uuid), LAMBDA s3 :
        [s |-> [s3 EXCEPT !.file_uuid_to_metadata[file_id].next_version =
                              Some(new_file_uuid)],
         res |-> "Ok",
         ret |-> Some(new_file_uuid)])))

\* State::upsert_cloud_file_with_local_sync; of file_metadata only the fields
\* the method reads are given; unwrap() of a missing record traps
UpsertCloudFileWithLocalSync(s, file_id, file_metadata, user_id, now) ==
    IF file_id \notin DOMAIN s.file_uuid_to_metadata
    THEN [s |-> s, res |-> "Trap", ret |-> None]
    ELSE With(SanitizeFilePath(file_metadata.full_file_path), LAMBDA new_full_file_path :
         With(GenerateUniqueId(s, user_id, now), LAMBDA g :
         With(SplitPath(new_full_file_path), LAMBDA split :
         With(EnsureFolderStructure(g.s, split[1], file_metadata.storage_location,
                                    user_id, now), LAMBDA ens :
             IF ens.trap THEN [s |-> s, res |-> "Trap", ret |-> None]
             ELSE SyncFileInto(ens.s, file_id, s.file_uuid_to_metadata[file_id],
                               g.id, ens.id, split[2], new_full_file_path,
                               file_metadata, user_id, now)))))

\* A folder sync that also binds the incoming path to the folder
SyncFolderAndRebind(s, folder_id, folder_metadata, now) ==
    [s |-> [s EXCEPT
               !.folder_uuid_to_metadata[folder_id] =
                   [@ EXCEPT !.original_folder_name = folder_metadata.original_folder_name,
                             !.tags = folder_metadata.tags,
                             !.storage_location = folder_metadata.storage_location,
                             !.full_folder_path = folder_metadata.full_folder_path,
                             !.parent_folder_uuid = folder_metadata.parent_folder_uuid,
                             !.deleted = folder_metadata.deleted,
                             !.last_changed_unix_ms =
                                 BitOr(folder_metadata.last_changed_unix_ms,
                                       now \div NS_PER_MS)],
               !.full_folder_path_to_uuid =
                   MapInsert(@, folder_metadata.full_folder_path, folder_id)],
     res |-> "Ok", ret |-> Some(folder_id)]

\* State::upsert_cloud_folder_with_local_sync; of folder_metadata only the
\* fields the method reads are given
UpsertCloudFolderWithLocalSync(s, folder_id, folder_metadata, now) ==
    IF folder_id \notin DOMAIN s.folder_uuid_to_metadata
    THEN [s |-> s, res |-> "Trap", ret |-> None]
    ELSE [s |-> [s EXCEPT
                   !.folder_uuid_to_metadata[folder_id].original_folder_name =
                       folder_metadata.original_folder_name,
                   !.folder_uuid_to_metadata[folder_id].tags = folder_metadata.tags,
                   !.folder_uuid_to_metadata[folder_id].storage_location =
                       folder_metadata.storage_location,
                   !.folder_uuid_to_metadata[folder_id].full_folder_path =
                       folder_metadata.full_folder_path,
                   !.folder_uuid_to_metadata[folder_id].parent_folder_uuid =
                       folder_metadata.parent_folder_uuid,
                   !.folder_uuid_to_metadata[folder_id].deleted = folder_metadata.deleted,
                   !.folder_uuid_to_metadata[folder_id].last_changed_unix_ms =
                       BitOr(folder_metadata.last_changed_unix_ms, now \div NS_PER_MS)],
          res |-> "Ok", ret |-> Some(folder_id)]

-----------------------------------------------------------------------------
(* Queries *)

\* An unsigned integer is the sequence of its 16-bit limbs, the lowest first:
\* two limbs for a u32, usize_bits / 16 limbs for a usize
LIMB == 65536

U32Of(n) == <<n % LIMB, n \div LIMB>>

U32_MAX == <<LIMB - 1, LIMB - 1>>

\* n as usize, for n below 2^32 (a length, or a u32 cast with `as usize`)
AsUsize(u, build) == u \o [i \in 1..((build.usize_bits \div 16) - 2) |-> 0]

UsizeOf(n, build) == AsUsize(U32Of(n), build)

\* a + b + carry limb by limb; the last element of the result is the carry out
RECURSIVE AddLimbs(_, _, _)
AddLimbs(a, b, carry) ==
    IF a = <<>> THEN <<carry>>
    ELSE <<(a[1] + b[1] + carry) % LIMB>>
         \o AddLimbs(Tail(a), Tail(b), (a[1] + b[1] + carry) \div LIMB)

\* a - b - borrow limb by limb; the last element of the result is the borrow out
RECURSIVE SubLimbs(_, _, _)
SubLimbs(a, b, borrow) ==
    IF a = <<>> THEN <<borrow>>
    ELSE <<(a[1] + LIMB - b[1] - borrow) % LIMB>>
         \o SubLimbs(Tail(a), Tail(b), IF a[1] - b[1] - borrow < 0 THEN 1 ELSE 0)

\* a < b
LtU(a, b) == SubLimbs(a, b, 0)[Len(a) + 1] = 1

\* usize::min
MinU(a, b) == IF LtU(b, a) THEN b ELSE a

\* usize + usize: on a carry out of the top limb a build with overflow checks
\* panics and a build without them keeps the wrapped sum
AddUsize(a, b, build) ==
    With(AddLimbs(a, b, 0), LAMBDA r :
        [panic |-> build.overflow_checks /\ r[Len(a) + 1] = 1,
         value |-> SubSeq(r, 1, Len(a))])

\* usize - usize: on a borrow out of the top limb a build with overflow checks
\* panics and a build without them keeps the wrapped difference
SubUsize(a, b, build) ==
    With(SubLimbs(a, b, 0), LAMBDA r :
        [panic |-> build.overflow_checks /\ r[Len(a) + 1] = 1,
         value |-> SubSeq(r, 1, Len(a))])

\* vec[from..to].to_vec(): panics unless from <= to <= vec.len(); a length
\* fits the lowest limb
Slice(vec, from, to, build) ==
    IF LtU(to, from) \/ LtU(UsizeOf(Len(vec), build), to)
    THEN [panic |-> TRUE, value |-> <<>>]
    ELSE [panic |-> FALSE, value |-> SubSeq(vec, from[1] + 1, to[1])]

\* The records of the ids of a list that are stored, in list order
RECURSIVE Collect(_, _)
Collect(uuids, records) ==
    IF uuids = <<>> THEN <<>>
    ELSE (IF uuids[1] \in DOMAIN records THEN <<records[uuids[1]]>> ELSE <<>>)
         \o Collect(Tail(uuids), records)

\* FetchFilesResult::empty
EmptyFetchFilesResult ==
    [folders |-> <<>>, files |-> <<>>, total |-> 0, has_more |-> FALSE]

\* The reply of a query: a page, or a trap when one of the steps panicked
FetchFilesResult(panicked, result_folders, result_files, end, total_items) ==
    IF panicked THEN [res |-> "Trap", ret |-> None]
    ELSE [res |-> "Ok",
          ret |-> Some([folders |-> result_folders,
                        files |-> result_files,
                        total |-> Len(result_folders) + Len(result_files),
                        has_more |-> LtU(end, total_items)])]

\* "Apply pagination", the branch start < folders.len()
PageFromFolders(folders, files, start, end, build) ==
    With(Slice(folders, start, MinU(end, UsizeOf(Len(folders), build)), build), LAMBDA fs :
        IF LtU(UsizeOf(Len(folders), build), end)
        THEN With(SubUsize(end, UsizeOf(Len(folders), build), build), LAMBDA n :
             With(Slice(files, UsizeOf(0, build), n.value, build), LAMBDA ls :
                 FetchFilesResult(fs.panic \/ n.panic \/ ls.panic, fs.value, ls.value,
                                  end, UsizeOf(Len(folders) + Len(files), build))))
        ELSE FetchFilesResult(fs.panic, fs.value, <<>>,
                              end, UsizeOf(Len(folders) + Len(files), build)))

\* "Apply pagination", the branch start >= folders.len()
PageFromFiles(folders, files, start, end, build) ==
    With(SubUsize(start, UsizeOf(Len(folders), build), build), LAMBDA files_start :
    With(SubUsize(end, UsizeOf(Len(folders), build), build), LAMBDA files_end :
    With(Slice(files, files_start.value, files_end.value, build), LAMBDA ls :
        FetchFilesResult(files_start.panic \/ files_end.panic \/ ls.panic, <<>>, ls.value,
                         end, UsizeOf(Len(folders) + Len(files), build)))))

\* "Apply pagination" in State::fetch_files_at_folder_path
Paginate(folders, files, limit, after, build) ==
    With(AddUsize(AsUsize(after, build), AsUsize(limit, build), build), LAMBDA sum :
        IF sum.panic THEN [res |-> "Trap", ret |-> None]
        ELSE With(MinU(sum.value, UsizeOf(Len(folders) + Len(files), build)), LAMBDA end :
                 IF LtU(AsUsize(after, build), UsizeOf(Len(folders), build))
                 THEN PageFromFolders(folders, files, AsUsize(after, build), end, build)
                 ELSE PageFromFiles(folders, files, AsUsize(after, build), end, build)))

\* State::fetch_files_at_folder_path; build is the width of usize and whether
\* arithmetic overflow is checked
FetchFilesAtFolderPath(s, full_folder_path, limit, after, build) ==
    IF full_folder_path \in DOMAIN s.full_folder_path_to_uuid
       /\ s.full_folder_path_to_uuid[full_folder_path]
              \in DOMAIN s.folder_uuid_to_metadata
    THEN With(s.folder_uuid_to_metadata[s.full_folder_path_to_uuid[full_folder_path]],
              LAMBDA folder :
                  Paginate(Collect(folder.subfolder_uuids, s.folder_uuid_to_metadata),
                           Collect(folder.file_uuids, s.file_uuid_to_metadata),
                           limit, after, build))
    ELSE [res |-> "Ok", ret |-> Some(EmptyFetchFilesResult)]

-----------------------------------------------------------------------------
(* The canister: init and the update endpoints *)

\* An id that generate_unique_id never returns (time 0)
AbsentId == Sha256(0, "nobody", 0)

\* "<location>::<rest>"
Str(loc, rest) == <<loc, ":", ":">> \o rest

\* The inputs the calls are drawn from
Inputs ==
    [max_calls |-> MaxCalls,
     callers |-> {Installer},
     times |-> {2 * NS_PER_MS},
     locations |-> {"BrowserCache", "HardDrive"},
     folder_paths |-> {Str("BrowserCache", <<"a">>),
                       Str("BrowserCache", <<"a", "/", "b">>),
                       Str("HardDrive", <<>>)},
     file_paths |-> {Str("BrowserCache", <<"a", "/", "f">>),
                     Str("BrowserCache", <<"/", "/", "f">>)},
     folder_names |-> {<<"a">>, <<"c">>},
     file_names |-> {<<"g">>},
     file_metadata |-> {[full_file_path |-> Str("BrowserCache", <<"a", "/", "g">>),
                         storage_location |-> "BrowserCache",
                         created_date |-> NS_PER_MS,
                         file_size |-> 9,
                         raw_url |-> <<"u">>,
                         last_changed_unix_ms |-> 5,
                         deleted |-> FALSE]},
     folder_metadata |-> {[original_folder_name |-> <<"z">>,
                           tags |-> <<>>,
                           storage_location |-> "BrowserCache",
                           full_folder_path |-> Str("BrowserCache", <<"z", "/">>),
                           parent_folder_uuid |-> None,
                           deleted |-> FALSE,
                           last_changed_unix_ms |-> 5]}]

\* #[ic_cdk::init] and the thread_local initialisers
Init ==
    /\ folder_uuid_to_metadata = NewStore.folder_uuid_to_metadata
    /\ file_uuid_to_metadata = NewStore.file_uuid_to_metadata
    /\ full_folder_path_to_uuid = NewStore.full_folder_path_to_uuid
    /\ full_file_path_to_uuid = NewStore.full_file_path_to_uuid
    /\ ID_COUNTER = NewStore.ID_COUNTER
    /\ owner = Installer
    /\ last = [op |-> "init", caller |-> Installer, now |-> 0, arg |-> <<>>,
               res |-> "Ok", ret |-> None, streak |-> 0]
    /\ calls = 0
    /\ drives_counter = 0
    /\ user_drive_directory = EmptyMap
    /\ drives_directory = EmptyMap
    /\ drive_calls = <<>>
    /\ canisters = <<>>

\* History for the upsert_file calls: the number of consecutive returned
\* upsert_file calls to one path, the first of them finding the path unbound
Streak(op, arg, r) ==
    IF op # "upsert_file_to_hash_tables" \/ r.res # "Ok" THEN 0
    ELSE IF SanitizeFilePath(arg[1]) \notin DOMAIN full_file_path_to_uuid THEN 1
         ELSE IF last.op = op /\ last.streak > 0
                 /\ SanitizeFilePath(last.arg[1]) = SanitizeFilePath(arg[1])
              THEN last.streak + 1
              ELSE 0

\* An update call commits the store its method leaves and replies; r.ret is
\* None for a method that returns ()
Reply(op, caller, now, arg, r, ret) ==
    /\ folder_uuid_to_metadata' = r.s.folder_uuid_to_metadata
    /\ file_uuid_to_metadata' = r.s.file_uuid_to_metadata
    /\ full_folder_path_to_uuid' = r.s.full_folder_path_to_uuid
    /\ full_file_path_to_uuid' = r.s.full_file_path_to_uuid
    /\ ID_COUNTER' = r.s.ID_COUNTER
    /\ last' = [op |-> op, caller |-> caller, now |-> now, arg |-> arg,
                res |-> r.res, ret |-> ret, streak |-> Streak(op, arg, r)]
    /\ UNCHANGED <<owner, factoryVars>>

create_folder(caller, now, full_folder_path, storage_location) ==
    LET r == CreateFolder(Store, full_folder_path, storage_location, caller, now)
    IN Reply("create_folder", caller, now, <<full_folder_path, storage_location>>, r, r.ret)

upsert_file_to_hash_tables(caller, now, file_path, storage_location) ==
    LET r == UpsertFileToHashTables(Store, file_path, storage_location, caller, now)
    IN Reply("upsert_file_to_hash_tables", caller, now,
             <<file_path, storage_location>>, r, r.ret)

rename_folder(caller, now, folder_id, new_name) ==
    LET r == RenameFolder(Store, folder_id, new_name, now)
    IN Reply("rename_folder", caller, now, <<folder_id, new_name>>, r, None)

rename_file(caller, now, file_id, new_name) ==
    LET r == RenameFile(Store, file_id, new_name, now)
    IN Reply("rename_file", caller, now, <<file_id, new_name>>, r, None)

delete_folder(caller, now, folder_id) ==
    LET r == DeleteFolder(Store, folder_id, now)
    IN Reply("delete_folder", caller, now, <<folder_id>>, r, None)

delete_file(caller, now, file_id) ==
    LET r == DeleteFile(Store, file_id)
    IN Reply("delete_file", caller, now, <<file_id>>, r, None)

upsert_cloud_file_with_local_sync(caller, now, file_id, file_metadata) ==
    LET r == UpsertCloudFileWithLocalSync(Store, file_id, file_metadata, caller, now)
    IN Reply("upsert_cloud_file_with_local_sync", caller, now,
             <<file_id, file_metadata>>, r, r.ret)

upsert_cloud_folder_with_local_sync(caller, now, folder_id, folder_metadata) ==
    LET r == UpsertCloudFolderWithLocalSync(Store, folder_id, folder_metadata, now)
    IN Reply("upsert_cloud_folder_with_local_sync", caller, now,
             <<folder_id, folder_metadata>>, r, r.ret)

\* The call bound of the input profile in
Counted(in) == calls < in.max_calls /\ calls' = calls + 1

\* One update call with inputs drawn from in
Step(in) ==
    \/ \E caller \in in.callers, now \in in.times,
          p \in in.folder_paths, loc \in in.locations :
           Counted(in) /\ create_folder(caller, now, p, loc)
    \/ \E caller \in in.callers, now \in in.times,
          p \in in.file_paths, loc \in in.locations :
           Counted(in) /\ upsert_file_to_hash_tables(caller, now, p, loc)
    \/ \E caller \in in.callers, now \in in.times,
          id \in DOMAIN folder_uuid_to_metadata \cup {AbsentId},
          n \in in.folder_names :
           Counted(in) /\ rename_folder(caller, now, id, n)
    \/ \E caller \in in.callers, now \in in.times,
          id \in DOMAIN file_uuid_to_metadata \cup {AbsentId},
          n \in in.file_names :
           Counted(in) /\ rename_file(caller, now, id, n)
    \/ \E caller \in in.callers, now \in in.times,
          id \in DOMAIN folder_uuid_to_metadata \cup {AbsentId} :
           Counted(in) /\ delete_folder(caller, now, id)
    \/ \E caller \in in.callers, now \in in.times,
          id \in DOMAIN file_uuid_to_metadata \cup {AbsentId} :
           Counted(in) /\ delete_file(caller, now, id)
    \/ \E caller \in in.callers, now \in in.times,
          id \in DOMAIN file_uuid_to_metadata \cup {AbsentId},
          m \in in.file_metadata :
           Counted(in) /\ upsert_cloud_file_with_local_sync(caller, now, id, m)
    \/ \E caller \in in.callers, now \in in.times,
          id \in DOMAIN folder_uuid_to_metadata \cup {AbsentId},
          m \in in.folder_metadata :
           Counted(in) /\ upsert_cloud_folder_with_local_sync(caller, now, id, m)

Next == Step(Inputs)

Spec == Init /\ [][Next]_vars

\* Calls by the installer and by another principal; fewer calls per behaviour
MaxCallsAuth == 3

AuthInputs == [Inputs EXCEPT !.max_calls = MaxCallsAuth,
                             !.callers = {Installer, Stranger}]

NextAuth == Step(AuthInputs)

SpecAuth == Init /\ [][NextAuth]_vars

\* A query call replies and commits nothing
fetch_files_at_folder_path(caller, now, full_folder_path, limit, after, build) ==
    LET r == FetchFilesAtFolderPath(Store, full_folder_path, limit, after, build)
    IN /\ last' = [op |-> "fetch_files_at_folder_path", caller |-> caller, now |-> now,
                   arg |-> <<full_folder_path, limit, after, build>>,
                   res |-> r.res, ret |-> r.ret, streak |-> 0]
       /\ UNCHANGED <<folder_uuid_to_metadata, file_uuid_to_metadata,
                      full_folder_path_to_uuid, full_file_path_to_uuid,
                      ID_COUNTER, owner, factoryVars>>

\* Update calls that fill one storage location, and the pages queried of it
MaxCallsFetch == 3

FetchInputs == [Inputs EXCEPT !.max_calls = MaxCallsFetch,
                              !.locations = {"BrowserCache"},
                              !.folder_paths = {Str("BrowserCache", <<"a", "/", "b">>)},
                              !.file_paths = {Str("BrowserCache", <<"a", "/", "f">>)},
                              !.folder_names = {<<"c">>}]

\* The builds of the canister: usize of 32 bits (wasm32) or of 64 bits, with
\* or without overflow checks. A query leaves nothing behind, so the build is
\* drawn with each call.
Builds == [usize_bits : {32, 64}, overflow_checks : BOOLEAN]

FetchPaths == {Str("BrowserCache", <<>>), Str("BrowserCache", <<"a", "/">>),
               Str("BrowserCache", <<"q", "/">>)}

FetchLimits == {U32Of(0), U32Of(1), U32Of(2), U32_MAX}

FetchAfters == {U32Of(0), U32Of(1), U32Of(2), U32Of(3), U32_MAX}

NextFetch ==
    \/ Step(FetchInputs)
    \/ \E caller \in FetchInputs.callers, now \in FetchInputs.times, p \in FetchPaths,
          limit \in FetchLimits, after \in FetchAfters, build \in Builds :
           Counted(FetchInputs)
           /\ fetch_files_at_folder_path(caller, now, p, limit, after, build)

SpecFetch == Init /\ [][NextFetch]_vars

\* Calls with file paths that have no "::" or nothing but '/' after it
MaxCallsPaths == 3

PathInputs ==
    [Inputs EXCEPT
        !.max_calls = MaxCallsPaths,
        !.locations = {"BrowserCache"},
        !.folder_paths = {Str("BrowserCache", <<"a">>)},
        !.file_paths = {<<"n">>, Str("BrowserCache", <<"/">>),
                        Str("BrowserCache", <<"a", "/", "f">>)},
        !.file_metadata =
            {[m EXCEPT !.full_file_path = path] :
                 m \in Inputs.file_metadata,
                 path \in {<<"n">>, Str("BrowserCache", <<"a", "/", "g">>)}}]

NextPaths == Step(PathInputs)

SpecPaths == Init /\ [][NextPaths]_vars

\* Calls that sync folder records naming a parent: a folder that is not
\* stored, or the first folder created
MaxCallsSync == 3

SyncInputs ==
    [Inputs EXCEPT
        !.max_calls = MaxCallsSync,
        !.locations = {"BrowserCache"},
        !.folder_paths = {Str("BrowserCache", <<"a", "/", "b">>)},
        !.file_paths = {Str("BrowserCache", <<"a", "/", "f">>)},
        !.folder_metadata =
            {[m EXCEPT !.parent_folder_uuid = parent] :
                 m \in Inputs.folder_metadata,
                 parent \in {None, Some(AbsentId),
                             Some(Sha256(2 * NS_PER_MS, Installer, 0))}}]

NextSync == Step(SyncInputs)

SpecSync == Init /\ [][NextSync]_vars

\* Calls that rename folders of a three-level tree, also to the empty name
MaxCallsNames == 3

NameInputs ==
    [Inputs EXCEPT
        !.max_calls = MaxCallsNames,
        !.locations = {"BrowserCache"},
        !.folder_paths = {Str("BrowserCache", <<"a", "/", "b", "/", "x">>)},
        !.file_paths = {Str("BrowserCache", <<"a", "/", "f">>)},
        !.folder_names = {<<>>, <<"y">>}]

NextNames == Step(NameInputs)

SpecNames == Init /\ [][NextNames]_vars

-----------------------------------------------------------------------------
(* The factory canister *)

\* Principal::anonymous()
Anonymous == "anonymous"

\* The characters of the regex class of sanitize_username: slash, backslash,
\* at sign, colon, semicolon and the three quote characters, each quote
\* character a symbol of its name
ForbiddenChars == {"/", "\\", "@", ":", ";", "quote", "dquote", "backtick"}

\* The characters of the classes \p{L} and \p{N} that the usernames are
\* written with
LettersAndNumbers == {"u", "1"}

\* chars().take(32)
USERNAME_CHARS == 32

\* chars().take(n): the first n characters, or all when there are fewer
TakeChars(s, n) == SubSeq(s, 1, IF n < Len(s) THEN n ELSE Len(s))

\* sanitize_username
SanitizeUsername(username) ==
    TrimMatches(TakeChars([i \in 1..Len(username) |->
                               IF username[i] \in ForbiddenChars
                               THEN " " ELSE username[i]],
                          USERNAME_CHARS),
                " ")

\* is_valid_username: the regex ^[\p{L}\p{N}]+$
IsValidUsername(username) ==
    /\ username # <<>>
    /\ \A i \in 1..Len(username) : username[i] \in LettersAndNumbers

\* A create_drive call: its caller and argument, the await it is suspended at
\* ("done" once it has replied), the canister it was given, and its reply
DriveCall(caller, username, at, canister, res, ret) ==
    [caller |-> caller, username |-> username, at |-> at, canister |-> canister,
     res |-> res, ret |-> ret]

\* create_drive up to its first await: the call is rejected, or it asks the
\* management canister for a canister
create_drive(caller, username) ==
    /\ drive_calls' = Append(drive_calls,
           IF caller = Anonymous
           THEN DriveCall(caller, username, "done", None,
                          "Free users can only use local drives", None)
           ELSE IF ~IsValidUsername(SanitizeUsername(username))
           THEN DriveCall(caller, username, "done", None,
                          "Invalid username format", None)
           ELSE IF caller \in DOMAIN user_drive_directory
           THEN DriveCall(caller, username, "done", None,
                          "User already has a drive", None)
           ELSE DriveCall(caller, username, "create_canister", None, None, None))
    /\ UNCHANGED <<drives_counter, user_drive_directory, drives_directory,
                   canisters, driveVars>>

\* create_drive from the reply of create_canister to its second await: on Ok
\* the management canister has made a canister controlled by the factory and
\* the caller, and the call asks for the code to be installed
create_canister_replied(i, ok) ==
    /\ drive_calls[i].at = "create_canister"
    /\ IF ok
       THEN /\ canisters' = Append(canisters,
                                   [controllers |-> {"factory", drive_calls[i].caller},
                                    arg |-> None])
            /\ drive_calls' = [drive_calls EXCEPT ![i].at = "install_code",
                                                  ![i].canister = Some(Len(canisters) + 1)]
       ELSE /\ canisters' = canisters
            /\ drive_calls' = [drive_calls EXCEPT ![i].at = "done",
                                                  ![i].res = "Failed to create canister"]
    /\ UNCHANGED <<drives_counter, user_drive_directory, drives_directory, driveVars>>

\* A faulty variant of install_code_replied: a failed installation is counted
install_code_replied_counted(i, ok) ==
    /\ drive_calls[i].at = "install_code"
    /\ drives_counter' = drives_counter + 1
    /\ IF ok
       THEN /\ canisters' = [canisters EXCEPT ![drive_calls[i].canister[1]].arg =
                                 Some(<<drive_calls[i].caller,
                                        SanitizeUsername(drive_calls[i].username)>>)]
            /\ drives_directory' = MapInsert(drives_directory, drives_counter + 1,
                                             drive_calls[i].canister[1])
            /\ user_drive_directory' = MapInsert(user_drive_directory,
                                                 drive_calls[i].caller,
                                                 drive_calls[i].canister[1])
            /\ drive_calls' = [drive_calls EXCEPT ![i].at = "done", ![i].res = "Ok",
                                                  ![i].ret = drive_calls[i].canister]
       ELSE /\ drive_calls' = [drive_calls EXCEPT ![i].at = "done",
                                                  ![i].res = "Failed to install code"]
            /\ UNCHANGED <<canisters, drives_directory, user_drive_directory>>
    /\ UNCHANGED driveVars

\* create_drive from the reply of install_code to its end: on Ok the drive is
\* counted and recorded in both directories
install_code_replied(i, ok) ==
    /\ drive_calls[i].at = "install_code"
    /\ IF ok
       THEN /\ canisters' = [canisters EXCEPT ![drive_calls[i].canister[1]].arg =
                                 Some(<<drive_calls[i].caller,
                                        SanitizeUsername(drive_calls[i].username)>>)]
            /\ drives_counter' = drives_counter + 1
            /\ drives_directory' = MapInsert(drives_directory, drives_counter + 1,
                                             drive_calls[i].canister[1])
            /\ user_drive_directory' = MapInsert(user_drive_directory,
                                                 drive_calls[i].caller,
                                                 drive_calls[i].canister[1])
            /\ drive_calls' = [drive_calls EXCEPT ![i].at = "done", ![i].res = "Ok",
                                                  ![i].ret = drive_calls[i].canister]
       ELSE /\ drive_calls' = [drive_calls EXCEPT ![i].at = "done",
                                                  ![i].res = "Failed to install code"]
            /\ UNCHANGED <<canisters, drives_counter, drives_directory,
                           user_drive_directory>>
    /\ UNCHANGED driveVars

\* The number of create_drive calls a behaviour makes
MaxDriveCalls == 3

DriveCallers == {"alice", "bob", Anonymous}

Usernames == {<<"u">>, <<"u", "@">>, <<"u", "@", "1">>}

NextFactory ==
    \/ \E caller \in DriveCallers, username \in Usernames :
           Len(drive_calls) < MaxDriveCalls /\ create_drive(caller, username)
    \/ \E i \in DOMAIN drive_calls, ok \in BOOLEAN : create_canister_replied(i, ok)
    \/ \E i \in DOMAIN drive_calls, ok \in BOOLEAN : install_code_replied(i, ok)

SpecFactory == Init /\ [][NextFactory]_vars

-----------------------------------------------------------------------------
(* Path sanitization, applied to any string *)

\* The length of the longest string sanitized
MaxPathLen == 5

\* The characters the strings are written with: a letter and the two
\* characters that sanitize_file_path treats
PathChars == {"n", ":", "/"}

FilePathArguments == UNION {[1..n -> PathChars] : n \in 0..MaxPathLen}

\* A string is given
InitSanitize ==
    /\ folder_uuid_to_metadata = NewStore.folder_uuid_to_metadata
    /\ file_uuid_to_metadata = NewStore.file_uuid_to_metadata
    /\ full_folder_path_to_uuid = NewStore.full_folder_path_to_uuid
    /\ full_file_path_to_uuid = NewStore.full_file_path_to_uuid
    /\ ID_COUNTER = NewStore.ID_COUNTER
    /\ owner = Installer
    /\ calls = 0
    /\ drives_counter = 0
    /\ user_drive_directory = EmptyMap
    /\ drives_directory = EmptyMap
    /\ drive_calls = <<>>
    /\ canisters = <<>>
    /\ \E file_path \in FilePathArguments :
           last = [op |-> "file_path", caller |-> Installer, now |-> 0,
                   arg |-> <<file_path>>, res |-> "Ok", ret |-> None, streak |-> 0]

\* State::sanitize_file_path applied to the string given
sanitize_file_path ==
    /\ last.op = "file_path"
    /\ last' = [last EXCEPT !.op = "sanitize_file_path",
                            !.ret = Some(SanitizeFilePath(last.arg[1]))]
    /\ UNCHANGED <<folder_uuid_to_metadata, file_uuid_to_metadata,
                   full_folder_path_to_uuid, full_file_path_to_uuid,
                   ID_COUNTER, owner, calls, factoryVars>>

\* State::sanitize_file_path applied to its own result
sanitize_file_path_again ==
    /\ last.op = "sanitize_file_path"
    /\ last' = [last EXCEPT !.op = "sanitize_file_path again",
                            !.arg = <<last.ret[1]>>,
                            !.ret = Some(SanitizeFilePath(last.ret[1]))]
    /\ UNCHANGED <<folder_uuid_to_metadata, file_uuid_to_metadata,
                   full_folder_path_to_uuid, full_file_path_to_uuid,
                   ID_COUNTER, owner, calls, factoryVars>>

NextSanitize == sanitize_file_path \/ sanitize_file_path_again

SpecSanitize == InitSanitize /\ [][NextSanitize]_vars

-----------------------------------------------------------------------------
(* Properties of the update calls *)

\* The step leaves the folder records, the file records and both path
\* indexes as they were
RecordsAndIndexesUnchanged ==
    /\ folder_uuid_to_metadata' = folder_uuid_to_metadata
    /\ file_uuid_to_metadata' = file_uuid_to_metadata
    /\ full_folder_path_to_uuid' = full_folder_path_to_uuid
    /\ full_file_path_to_uuid' = full_file_path_to_uuid

\* C1: whenever rename_folder returns an error, the folder records, the file
\* records, the folder path index and the file path index are exactly as they
\* were before the call.
C1_RenameFolderErrorLeavesStore ==
    [][(last'.op = "rename_folder" /\ last'.res # "Ok")
           => RecordsAndIndexesUnchanged]_vars

\* C2: whenever delete_folder returns an error, also one propagated from the
\* delete of a child, the folder records, the file records and both path
\* indexes are exactly as before the call.
C2_DeleteFolderErrorLeavesStore ==
    [][(last'.op = "delete_folder" /\ last'.res # "Ok")
           => RecordsAndIndexesUnchanged]_vars

\* C3: a mutating call by a caller other than the owner is rejected as
\* Unauthorized and leaves the folder records, the file records and both path
\* indexes unchanged.
C3_StrangerIsRejected ==
    [][(last'.op # "init" /\ last'.caller # owner)
           => (last'.res = "Unauthorized" /\ RecordsAndIndexesUnchanged)]_vars

\* p is a proper prefix of q
ProperPrefix(p, q) == Len(p) < Len(q) /\ Take(q, Len(p)) = p

\* The path of the sibling called name of the folder at path P: P's parent
\* prefix, then name and '/'
SiblingPath(P, name) ==
    LET t == TrimEnd(P, "/")
        i == IF RFind(t, "/") # 0 THEN RFind(t, "/") ELSE RFind(t, ":")
    IN Take(t, i) \o name \o <<"/">>

\* The step moved every path Q of index below P to P2 + (Q - P), with the id
\* and, in records', the full path of the record following
SubtreeRebound(index, index2, P, P2, PathOf(_)) ==
    \A Q \in DOMAIN index :
        ProperPrefix(P, Q) =>
            /\ Q \notin DOMAIN index2
            /\ (P2 \o Drop(Q, Len(P))) \in DOMAIN index2
            /\ index2[P2 \o Drop(Q, Len(P))] = index[Q]
            /\ PathOf(index[Q]) = P2 \o Drop(Q, Len(P))

NewFolderPathOf(id) ==
    IF id \in DOMAIN folder_uuid_to_metadata'
    THEN folder_uuid_to_metadata'[id].full_folder_path ELSE <<>>

NewFilePathOf(id) ==
    IF id \in DOMAIN file_uuid_to_metadata'
    THEN file_uuid_to_metadata'[id].full_file_path ELSE <<>>

\* The postcondition of a rename_folder(id, new_name) of the folder bound at P
RenamedFrom(P, id, new_name) ==
    /\ folder_uuid_to_metadata'[id].original_folder_name = new_name
    /\ NewFolderPathOf(id) = SiblingPath(P, new_name)
    /\ P \notin DOMAIN full_folder_path_to_uuid'
    /\ NewFolderPathOf(id) \in DOMAIN full_folder_path_to_uuid'
    /\ full_folder_path_to_uuid'[NewFolderPathOf(id)] = id
    /\ SubtreeRebound(full_folder_path_to_uuid, full_folder_path_to_uuid',
                      P, NewFolderPathOf(id), NewFolderPathOf)
    /\ SubtreeRebound(full_file_path_to_uuid, full_file_path_to_uuid',
                      P, NewFolderPathOf(id), NewFilePathOf)

\* Every bound path is the full path of the stored record it is bound to
IndexesMatchRecords ==
    /\ \A Q \in DOMAIN full_folder_path_to_uuid :
           /\ full_folder_path_to_uuid[Q] \in DOMAIN folder_uuid_to_metadata
           /\ folder_uuid_to_metadata[full_folder_path_to_uuid[Q]].full_folder_path = Q
    /\ \A Q \in DOMAIN full_file_path_to_uuid :
           /\ full_file_path_to_uuid[Q] \in DOMAIN file_uuid_to_metadata
           /\ file_uuid_to_metadata[full_file_path_to_uuid[Q]].full_file_path = Q

\* C4: after rename_folder(id, new_name) of a folder bound at path P, not a
\* namespace root, in a state whose indexes match the records, giving P', the
\* record has name new_name and path P', P is unbound, and every folder and
\* file that was bound at P+s is bound at P'+s, by the same id, whose record
\* carries P'+s, and no longer at P+s.
C4_RenameFolderRebindsSubtree ==
    [][(last'.op = "rename_folder" /\ last'.res = "Ok" /\ IndexesMatchRecords)
           => \A P \in DOMAIN full_folder_path_to_uuid :
                  (/\ full_folder_path_to_uuid[P] = last'.arg[1]
                   /\ EndsWith(P, "/"))
                      => RenamedFrom(P, last'.arg[1], last'.arg[2])]_vars

\* The folder id is live: stored, not tombstoned and bound at its path
LiveFolder(id) ==
    /\ id \in DOMAIN folder_uuid_to_metadata
    /\ ~folder_uuid_to_metadata[id].deleted
    /\ folder_uuid_to_metadata[id].full_folder_path \in DOMAIN full_folder_path_to_uuid
    /\ full_folder_path_to_uuid[folder_uuid_to_metadata[id].full_folder_path] = id

\* C5: rename_folder(id, new_name) succeeds for every live folder, at any
\* depth, when no folder is bound at the new path; it fails only for an
\* absent id or a collision on the new path.
C5_RenameFolderSucceedsAtAnyDepth ==
    [][last'.op = "rename_folder"
           => /\ last'.res \in {"Ok", "Folder not found",
                  "A folder with the new name already exists in the parent directory"}
              /\ (/\ LiveFolder(last'.arg[1])
                  /\ SiblingPath(folder_uuid_to_metadata[last'.arg[1]].full_folder_path,
                                 last'.arg[2]) \notin DOMAIN full_folder_path_to_uuid)
                     => last'.res = "Ok"]_vars

\* The folders of the subtrees rooted at the folders of S, by the child lists
RECURSIVE Subtree(_, _)
Subtree(folders, S) ==
    LET T == S \cup {c \in DOMAIN folders :
                        \E p \in S \cap DOMAIN folders :
                            Contains(folders[p].subfolder_uuids, c)}
    IN IF T = S THEN S ELSE Subtree(folders, T)

\* The postcondition of a delete_folder of the subtree Sub
SubtreeDeleted(Sub) ==
    /\ \A f \in DOMAIN file_uuid_to_metadata' :
           file_uuid_to_metadata'[f].folder_uuid \notin Sub
    /\ \A f \in DOMAIN file_uuid_to_metadata :
           file_uuid_to_metadata[f].folder_uuid \in Sub
               => file_uuid_to_metadata[f].full_file_path
                      \notin DOMAIN full_file_path_to_uuid'
    /\ \A d \in Sub :
           /\ folder_uuid_to_metadata[d].full_folder_path
                  \notin DOMAIN full_folder_path_to_uuid'
           /\ d \in DOMAIN folder_uuid_to_metadata'
           /\ folder_uuid_to_metadata'[d].deleted
           /\ folder_uuid_to_metadata'[d].subfolder_uuids
                  = folder_uuid_to_metadata[d].subfolder_uuids
           /\ folder_uuid_to_metadata'[d].file_uuids
                  = folder_uuid_to_metadata[d].file_uuids

\* C6: after delete_folder(id) succeeds no file record owned by a folder of
\* the subtree of id remains (superseded versions included), none of the
\* subtree's file paths and folder paths is bound, and every folder of the
\* subtree is still stored, with its child lists intact and deleted = true.
C6_DeleteFolderPurgesSubtree ==
    [][(last'.op = "delete_folder" /\ last'.res = "Ok")
           => SubtreeDeleted(Subtree(folder_uuid_to_metadata, {last'.arg[1]}))]_vars

\* C7: delete_folder(id) fails only when id is absent from the folder
\* records: for every stored id it returns success and leaves the folder
\* tombstoned and its path unbound.
C7_DeleteFolderFailsOnlyWhenAbsent ==
    [][(last'.op = "delete_folder"
          /\ last'.arg[1] \in DOMAIN folder_uuid_to_metadata)
           => /\ last'.res = "Ok"
              /\ folder_uuid_to_metadata'[last'.arg[1]].deleted
              /\ folder_uuid_to_metadata[last'.arg[1]].full_folder_path
                     \notin DOMAIN full_folder_path_to_uuid']_vars

\* The canonical path of the folder that holds the file at the canonical
\* path: up to the last '/', or else the namespace root
FolderPathOf(path) ==
    Take(path, IF RFind(path, "/") # 0 THEN RFind(path, "/") ELSE RFind(path, ":"))

\* path is "<namespace>::..." for the namespace of storage_location
WellFormed(path, storage_location) ==
    /\ Len(SplitN2(path, <<":", ":">>)) = 2
    /\ SplitN2(path, <<":", ":">>)[1] = LocToString(storage_location)

\* The postcondition of an upsert_file of the canonical path, in
\* storage_location, that returned n, F being the folder n's record names: the
\* folder bound at the path's folder prefix when the path is of the namespace
\* of storage_location
Upserted(path, storage_location, n, F) ==
    /\ path \in DOMAIN full_file_path_to_uuid'
    /\ full_file_path_to_uuid'[path] = n
    /\ WellFormed(path, storage_location)
           => /\ FolderPathOf(path) \in DOMAIN full_folder_path_to_uuid'
              /\ full_folder_path_to_uuid'[FolderPathOf(path)] = F
    /\ F \in DOMAIN folder_uuid_to_metadata'
    /\ Contains(folder_uuid_to_metadata'[F].file_uuids, n)
    /\ IF path \in DOMAIN full_file_path_to_uuid
       THEN /\ full_file_path_to_uuid[path] \in DOMAIN file_uuid_to_metadata
            /\ full_file_path_to_uuid[path] \in DOMAIN file_uuid_to_metadata'
            /\ file_uuid_to_metadata'[n].file_version =
                   file_uuid_to_metadata[full_file_path_to_uuid[path]].file_version + 1
            /\ file_uuid_to_metadata'[n].prior_version =
                   Some(full_file_path_to_uuid[path])
            /\ file_uuid_to_metadata'[full_file_path_to_uuid[path]].next_version
                   = Some(n)
            /\ ~Contains(folder_uuid_to_metadata'[F].file_uuids,
                         full_file_path_to_uuid[path])
       ELSE /\ file_uuid_to_metadata'[n].file_version = 1
            /\ file_uuid_to_metadata'[n].prior_version = None

RECURSIVE PriorChain(_, _)
PriorChain(head, fuel) ==
    IF fuel = 0 \/ head = None \/ head[1] \notin DOMAIN file_uuid_to_metadata
    THEN <<>>
    ELSE <<head[1]>>
         \o PriorChain(file_uuid_to_metadata[head[1]].prior_version, fuel - 1)

\* chain has K distinct records, of versions K, K-1, ..., 1, and ends there
ChainOfVersions(chain, K) ==
    /\ Len(chain) = K
    /\ \A i, j \in 1..K : chain[i] = chain[j] => i = j
    /\ \A i \in 1..K : file_uuid_to_metadata[chain[i]].file_version = K - i + 1
    /\ file_uuid_to_metadata[chain[K]].prior_version = None

\* C9: after K >= 1 consecutive upsert_file calls to one path that was bound
\* to no file before the first, walking prior_version from the file bound at
\* the path visits exactly K distinct records, of versions K, K-1, ..., 1,
\* and then stops.
C9_UpsertChainHasKVersions ==
    last.streak > 0
        => ChainOfVersions(
               PriorChain(LookupFile(Store, SanitizeFilePath(last.arg[1])),
                          last.streak + 1),
               last.streak)

\* Three consecutive upsert_file calls to a path that was unbound
C9_Witness == last.streak = 3

\* The canonical path of the namespace root (k = 0) or of the first k
\* segments under it
RECURSIVE PrefixPath(_, _, _)
PrefixPath(ns, segs, k) ==
    IF k = 0 THEN ns \o <<":", ":">>
    ELSE PrefixPath(ns, segs, k - 1) \o segs[k] \o <<"/">>

\* The segments of the canonical form of a folder path
SegmentsOf(path) == Segments(SplitN2(SanitizeFilePath(path), <<":", ":">>)[2])

\* The postcondition of create_folder for prefix k of the path: bound; as
\* before if it was bound; else bound to a new record that carries the path
\* and is the last of its parent's child folders
PrefixEnsured(ns, segs, k) ==
    /\ PrefixPath(ns, segs, k) \in DOMAIN full_folder_path_to_uuid'
    /\ IF PrefixPath(ns, segs, k) \in DOMAIN full_folder_path_to_uuid
       THEN full_folder_path_to_uuid'[PrefixPath(ns, segs, k)]
                = full_folder_path_to_uuid[PrefixPath(ns, segs, k)]
       ELSE /\ full_folder_path_to_uuid'[PrefixPath(ns, segs, k)]
                   \notin DOMAIN folder_uuid_to_metadata
            /\ full_folder_path_to_uuid'[PrefixPath(ns, segs, k)]
                   \in DOMAIN folder_uuid_to_metadata'
            /\ folder_uuid_to_metadata'[full_folder_path_to_uuid'[
                   PrefixPath(ns, segs, k)]].full_folder_path = PrefixPath(ns, segs, k)
            /\ k > 0 =>
                 /\ EndsWith(PrefixPath(ns, segs, k), "/")
                 /\ folder_uuid_to_metadata'[full_folder_path_to_uuid'[
                        PrefixPath(ns, segs, k - 1)]].subfolder_uuids
                    = (IF PrefixPath(ns, segs, k - 1) \in DOMAIN full_folder_path_to_uuid
                       THEN folder_uuid_to_metadata[full_folder_path_to_uuid[
                                PrefixPath(ns, segs, k - 1)]].subfolder_uuids
                       ELSE <<>>)
                      \o <<full_folder_path_to_uuid'[PrefixPath(ns, segs, k)]>>

\* The postcondition of a create_folder of the segments segs under ns
FolderCreated(ns, segs) ==
    /\ last'.res = "Ok"
    /\ last'.ret # None
    /\ last'.ret[1].full_folder_path = PrefixPath(ns, segs, Len(segs))
    /\ folder_uuid_to_metadata'[last'.ret[1].id] = last'.ret[1]
    /\ full_folder_path_to_uuid'[last'.ret[1].full_folder_path] = last'.ret[1].id
    /\ \A k \in 0..Len(segs) : PrefixEnsured(ns, segs, k)
    /\ Cardinality(DOMAIN folder_uuid_to_metadata' \ DOMAIN folder_uuid_to_metadata)
           = Cardinality({k \in 0..Len(segs) :
                 PrefixPath(ns, segs, k) \notin DOMAIN full_folder_path_to_uuid})
    /\ DOMAIN full_folder_path_to_uuid'
           = DOMAIN full_folder_path_to_uuid
             \cup {PrefixPath(ns, segs, k) : k \in 0..Len(segs)}

\* C10: create_folder(path, namespace) on a well-formed path whose last folder
\* is not bound creates exactly one record for the namespace root if missing
\* and one for each missing prefix and for the last folder, each bound at its
\* canonical path (ending in '/' below the root) and appended to its parent's
\* child folders, creates nothing for bound prefixes, and returns the record
\* of the last folder, which its returned full path resolves to.
C10_CreateFolderCreatesMissingPrefixes ==
    [][(/\ last'.op = "create_folder"
        /\ WellFormed(last'.arg[1], last'.arg[2])
        /\ PrefixPath(LocToString(last'.arg[2]), SegmentsOf(last'.arg[1]),
                      Len(SegmentsOf(last'.arg[1])))
               \notin DOMAIN full_folder_path_to_uuid)
           => FolderCreated(LocToString(last'.arg[2]), SegmentsOf(last'.arg[1]))]_vars

\* The second call, a create_folder of a path of two segments, has created
\* the last folder alone: the root and the first segment were bound
C10_Witness ==
    /\ last.op = "create_folder"
    /\ last.res = "Ok"
    /\ Len(SegmentsOf(last.arg[1])) = 2
    /\ calls = 2
    /\ ID_COUNTER = 3
    /\ Cardinality(DOMAIN folder_uuid_to_metadata) = 3

\* The namespace prefix of a path: what precedes the first "::"
NamespaceOf(path) == SplitN2(path, <<":", ":">>)[1]

\* The canonical path of the last folder of a folder path
LastPrefix(path) ==
    PrefixPath(NamespaceOf(path), SegmentsOf(path), Len(SegmentsOf(path)))

\* The call create_folder(path, storage_location) is one of the two failure
\* cases: a namespace mismatch, or a path of at least one segment that is bound
CreateFolderMustFail(path, storage_location) ==
    \/ NamespaceOf(path) # LocToString(storage_location)
    \/ /\ SegmentsOf(path) # <<>>
       /\ LastPrefix(path) \in DOMAIN full_folder_path_to_uuid

\* C11: create_folder returns an error and leaves the folder records, the file
\* records and both path indexes unchanged when the path's namespace prefix
\* differs from the namespace argument and when the path, of at least one
\* segment, already names a bound folder.
C11_CreateFolderFailureLeavesStore ==
    [][(last'.op = "create_folder"
          /\ CreateFolderMustFail(last'.arg[1], last'.arg[2]))
           => (last'.res # "Ok" /\ RecordsAndIndexesUnchanged)]_vars

\* An earlier call has ensured the folder path: the namespace root and every
\* prefix of the path are bound
AlreadyEnsured(path) ==
    \A k \in 0..Len(SegmentsOf(path)) :
        PrefixPath(NamespaceOf(path), SegmentsOf(path), k)
            \in DOMAIN full_folder_path_to_uuid

\* create_folder(path, storage_location) is re-issued for an ensured path
ReissuedCreateFolder ==
    /\ last'.op = "create_folder"
    /\ WellFormed(last'.arg[1], last'.arg[2])
    /\ AlreadyEnsured(last'.arg[1])

\* C12 as stated: re-issuing create_folder for a folder path that an earlier
\* call already ensured leaves the store unchanged and does not report a
\* failure.
C12_ReissuedCreateFolderIsNoError ==
    [][ReissuedCreateFolder
           => (RecordsAndIndexesUnchanged /\ last'.res = "Ok")]_vars

\* C12 amended: re-issuing create_folder for a folder path that an earlier
\* call already ensured leaves the store and the id counter unchanged; for a
\* path of at least one segment it reports the failure "Folder already
\* exists", and only for the namespace root it returns the root's record.
C12_ReissuedCreateFolderLeavesStore ==
    [][ReissuedCreateFolder
           => /\ RecordsAndIndexesUnchanged
              /\ ID_COUNTER' = ID_COUNTER
              /\ IF SegmentsOf(last'.arg[1]) = <<>>
                 THEN /\ last'.res = "Ok"
                      /\ last'.ret = Some(folder_uuid_to_metadata[
                             full_folder_path_to_uuid[LastPrefix(last'.arg[1])]])
                 ELSE /\ last'.res = "Folder already exists"
                      /\ last'.ret = None]_vars

\* A create_folder of an ensured path of two segments has reported "Folder
\* already exists"
C12_Witness ==
    /\ last.op = "create_folder"
    /\ last.res = "Folder already exists"
    /\ Len(SegmentsOf(last.arg[1])) = 2
    /\ WellFormed(last.arg[1], last.arg[2])
    /\ AlreadyEnsured(last.arg[1])

\* The ids of the stored records
StoredIds == DOMAIN folder_uuid_to_metadata \cup DOMAIN file_uuid_to_metadata

\* The counter value an id was generated from
CounterOf(id) == id[3]

\* Every record is stored under its own id, no id names both a folder and a
\* file, every stored id was generated from a counter value below the counter,
\* and two stored ids were never generated from one counter value
IdsPairwiseDifferent ==
    /\ \A id \in DOMAIN folder_uuid_to_metadata : folder_uuid_to_metadata[id].id = id
    /\ \A id \in DOMAIN file_uuid_to_metadata : file_uuid_to_metadata[id].id = id
    /\ DOMAIN folder_uuid_to_metadata \cap DOMAIN file_uuid_to_metadata = {}
    /\ \A id \in StoredIds : CounterOf(id) < ID_COUNTER
    /\ \A id1, id2 \in StoredIds : CounterOf(id1) = CounterOf(id2) => id1 = id2

\* C13: the counter never decreases, every id a call allocates is generated
\* from a counter value of its own, between the counter before the call and
\* the counter after it, so the stored ids are pairwise different, time and
\* caller being identical, and no id is assigned to two records.
C13_GeneratedIdsAreUnique ==
    [][/\ ID_COUNTER' >= ID_COUNTER
       /\ \A id \in StoredIds' \ StoredIds :
              /\ CounterOf(id) >= ID_COUNTER
              /\ CounterOf(id) < ID_COUNTER'
       /\ Cardinality(StoredIds' \ StoredIds) <= ID_COUNTER' - ID_COUNTER
       /\ IdsPairwiseDifferent']_vars

\* Four records carry ids generated at one time for one caller
C13_Witness ==
    /\ Cardinality(StoredIds) >= 4
    /\ \A id1, id2 \in StoredIds : id1[1] = id2[1] /\ id1[2] = id2[2]
    /\ DOMAIN file_uuid_to_metadata # {}

\* The number of places of a list that hold x
Occurrences(list, x) == Cardinality({i \in 1..Len(list) : list[i] = x})

\* The postcondition of a sync of incoming onto the stored file existing_id
\* that returned n, path being the canonical path of incoming and F the folder
\* n's record names: the folder bound at the path's folder prefix when the
\* path is of the namespace of incoming
SyncedFile(existing_id, incoming, path, n, F) ==
    /\ n \notin DOMAIN file_uuid_to_metadata
    /\ n \in DOMAIN file_uuid_to_metadata'
    /\ file_uuid_to_metadata'[n].file_version =
           file_uuid_to_metadata[existing_id].file_version + 1
    /\ file_uuid_to_metadata'[n].prior_version = Some(existing_id)
    /\ file_uuid_to_metadata'[existing_id].next_version = Some(n)
    /\ file_uuid_to_metadata'[n].created_date = incoming.created_date
    /\ file_uuid_to_metadata'[n].storage_location = incoming.storage_location
    /\ file_uuid_to_metadata'[n].file_size = incoming.file_size
    /\ file_uuid_to_metadata'[n].raw_url = incoming.raw_url
    /\ file_uuid_to_metadata'[n].deleted = incoming.deleted
    /\ path \in DOMAIN full_file_path_to_uuid'
    /\ full_file_path_to_uuid'[path] = n
    /\ WellFormed(path, incoming.storage_location)
           => /\ FolderPathOf(path) \in DOMAIN full_folder_path_to_uuid'
              /\ full_folder_path_to_uuid'[FolderPathOf(path)] = F
    /\ F \in DOMAIN folder_uuid_to_metadata'
    /\ Occurrences(folder_uuid_to_metadata'[F].file_uuids, n) = 1
    /\ \A i \in 1..Len(PriorChain(Some(existing_id), MaxCalls + 1)) :
           ~Contains(folder_uuid_to_metadata'[F].file_uuids,
                     PriorChain(Some(existing_id), MaxCalls + 1)[i])

SyncedFolderFields ==
    {"original_folder_name", "tags", "storage_location", "full_folder_path",
     "parent_folder_uuid", "deleted", "last_changed_unix_ms"}

\* The folder record of id after the step is the one before it with name,
\* tags, storage namespace, full path, parent id and tombstone flag of
\* incoming, and a last-modified value made of incoming's
SyncedFolder(id, incoming, now) ==
    /\ id \in DOMAIN folder_uuid_to_metadata'
    /\ DOMAIN folder_uuid_to_metadata'[id] = DOMAIN folder_uuid_to_metadata[id]
    /\ \A field \in DOMAIN folder_uuid_to_metadata[id] \ SyncedFolderFields :
           folder_uuid_to_metadata'[id][field] = folder_uuid_to_metadata[id][field]
    /\ \A field \in SyncedFolderFields \ {"last_changed_unix_ms"} :
           folder_uuid_to_metadata'[id][field] = incoming[field]
    /\ folder_uuid_to_metadata'[id].last_changed_unix_ms
           = BitOr(incoming.last_changed_unix_ms, now \div NS_PER_MS)

\* C17: a sync of incoming onto a stored folder id changes only that folder's
\* record: its name, tags, storage namespace, full path, parent id, tombstone
\* flag and last-modified are replaced from incoming, while its id,
\* child-folder list, child-file list, owner and creation time, every other
\* folder record, every file record and both path indexes are unchanged; it
\* returns id.
C17_SyncFolderChangesOneRecord ==
    [][(last'.op = "upsert_cloud_folder_with_local_sync"
        /\ last'.arg[1] \in DOMAIN folder_uuid_to_metadata)
           => /\ last'.res = "Ok"
              /\ last'.ret = Some(last'.arg[1])
              /\ SyncedFolder(last'.arg[1], last'.arg[2], last'.now)
              /\ {"id", "subfolder_uuids", "file_uuids", "owner", "created_date"}
                     \subseteq DOMAIN folder_uuid_to_metadata[last'.arg[1]]
                               \ SyncedFolderFields
              /\ DOMAIN folder_uuid_to_metadata' = DOMAIN folder_uuid_to_metadata
              /\ \A other \in DOMAIN folder_uuid_to_metadata \ {last'.arg[1]} :
                     folder_uuid_to_metadata'[other] = folder_uuid_to_metadata[other]
              /\ file_uuid_to_metadata' = file_uuid_to_metadata
              /\ full_folder_path_to_uuid' = full_folder_path_to_uuid
              /\ full_file_path_to_uuid' = full_file_path_to_uuid]_vars

\* A sync has replaced the fields of a folder that has a child folder and a
\* child file and was bound at another path than the incoming one
C17_Witness ==
    /\ last.op = "upsert_cloud_folder_with_local_sync"
    /\ last.res = "Ok"
    /\ folder_uuid_to_metadata[last.arg[1]].subfolder_uuids # <<>>
    /\ folder_uuid_to_metadata[last.arg[1]].file_uuids # <<>>
    /\ folder_uuid_to_metadata[last.arg[1]].full_folder_path = last.arg[2].full_folder_path
    /\ last.arg[2].full_folder_path \notin DOMAIN full_folder_path_to_uuid
    /\ \E path \in DOMAIN full_folder_path_to_uuid :
           full_folder_path_to_uuid[path] = last.arg[1]

\* Bit k of n
Bit(n, k) == (n \div (2 ^ k)) % 2

\* z is the bitwise OR of x and y: bit by bit, up to the bits all three lack
IsBitwiseOr(z, x, y) ==
    \A k \in 0..(x + y + z) : Bit(z, k) = (IF Bit(x, k) + Bit(y, k) > 0 THEN 1 ELSE 0)

\* stored is the bitwise OR of the incoming last-modified value and the
\* server time in milliseconds, and is smaller than neither
MergedLastChanged(stored, incoming, now) ==
    /\ IsBitwiseOr(stored, incoming.last_changed_unix_ms, now \div NS_PER_MS)
    /\ stored >= incoming.last_changed_unix_ms
    /\ stored >= now \div NS_PER_MS

\* C18: in both sync-merge operations the stored last-modified value equals
\* the bitwise OR of the incoming record's last-modified value and the current
\* server time in milliseconds (not the maximum and not an overwrite); it is
\* therefore never smaller than either operand.
C18_SyncStoresBitwiseOr ==
    [][/\ (last'.op = "upsert_cloud_file_with_local_sync" /\ last'.res = "Ok")
           => MergedLastChanged(
                  file_uuid_to_metadata'[last'.ret[1]].last_changed_unix_ms,
                  last'.arg[2], last'.now)
       /\ (last'.op = "upsert_cloud_folder_with_local_sync" /\ last'.res = "Ok")
           => MergedLastChanged(
                  folder_uuid_to_metadata'[last'.arg[1]].last_changed_unix_ms,
                  last'.arg[2], last'.now)]_vars

\* A folder sync and, before it, a file sync have stored a value that is
\* neither operand: larger than the incoming value and than the server time
C18_Witness ==
    /\ last.op = "upsert_cloud_folder_with_local_sync"
    /\ last.res = "Ok"
    /\ folder_uuid_to_metadata[last.arg[1]].last_changed_unix_ms
           > LaterOf(last.arg[2].last_changed_unix_ms, last.now \div NS_PER_MS)
    /\ \E id \in DOMAIN file_uuid_to_metadata, incoming \in Inputs.file_metadata :
           /\ file_uuid_to_metadata[id].prior_version # None
           /\ file_uuid_to_metadata[id].last_changed_unix_ms
                  > LaterOf(incoming.last_changed_unix_ms, last.now \div NS_PER_MS)

\* The stored file of id has been removed and spliced out of its chain:
\* gone from the record map, its path unbound, its stored neighbours linked
\* to each other
Spliced(id) ==
    /\ DOMAIN file_uuid_to_metadata' = DOMAIN file_uuid_to_metadata \ {id}
    /\ file_uuid_to_metadata[id].full_file_path \notin DOMAIN full_file_path_to_uuid'
    /\ \A prior \in DOMAIN file_uuid_to_metadata' :
           file_uuid_to_metadata[id].prior_version = Some(prior)
               => file_uuid_to_metadata'[prior].next_version
                      = file_uuid_to_metadata[id].next_version
    /\ \A next \in DOMAIN file_uuid_to_metadata' :
           file_uuid_to_metadata[id].next_version = Some(next)
               => file_uuid_to_metadata'[next].prior_version
                      = file_uuid_to_metadata[id].prior_version

\* No file record left links to id
Unlinked(id) ==
    \A other \in DOMAIN file_uuid_to_metadata' :
        /\ file_uuid_to_metadata'[other].prior_version # Some(id)
        /\ file_uuid_to_metadata'[other].next_version # Some(id)

\* C19: delete_file(id) on a stored file removes its record from the file
\* record map, unbinds the record's path from the file path index, sets the
\* prior version's next_version to the deleted record's next_version and the
\* next version's prior_version to the deleted record's prior_version;
\* afterwards no remaining file record has prior_version or next_version equal
\* to id. On an id that is not stored it returns NotFound.
C19_DeleteFileSplicesChain ==
    [][last'.op = "delete_file"
           => IF last'.arg[1] \in DOMAIN file_uuid_to_metadata
              THEN /\ last'.res = "Ok"
                   /\ Spliced(last'.arg[1])
                   /\ Unlinked(last'.arg[1])
              ELSE last'.res = "File not found"]_vars

\* The file of id is stored and bound at the path of its record
BoundFile(id) ==
    /\ id \in DOMAIN file_uuid_to_metadata
    /\ file_uuid_to_metadata[id].full_file_path \in DOMAIN full_file_path_to_uuid
    /\ full_file_path_to_uuid[file_uuid_to_metadata[id].full_file_path] = id

\* The path of the folder that the record of the file id names, followed by
\* name
PathInParent(id, name) ==
    folder_uuid_to_metadata[file_uuid_to_metadata[id].folder_uuid].full_folder_path
        \o name

\* The record of id after the step is named name at new_path, and new_path
\* instead of the old path resolves to id
RenamedFile(id, name, new_path) ==
    /\ id \in DOMAIN file_uuid_to_metadata'
    /\ file_uuid_to_metadata'[id].original_file_name = name
    /\ file_uuid_to_metadata'[id].full_file_path = new_path
    /\ file_uuid_to_metadata'[id].extension = Extension(name)
    /\ file_uuid_to_metadata[id].full_file_path \notin DOMAIN full_file_path_to_uuid'
    /\ new_path \in DOMAIN full_file_path_to_uuid'
    /\ full_file_path_to_uuid'[new_path] = id

\* C20: rename_file(id, new_name) on a file bound at its path, when the new
\* path is unbound, sets the record's name to new_name, its full path to the
\* parent folder's path followed by new_name and its extension to the one
\* derived from new_name; afterwards the old path is unbound and the new path
\* resolves to id; no other file record, no folder record and no folder child
\* list changes.
C20_RenameFileRebindsPath ==
    [][(/\ last'.op = "rename_file"
        /\ BoundFile(last'.arg[1])
        /\ file_uuid_to_metadata[last'.arg[1]].folder_uuid
               \in DOMAIN folder_uuid_to_metadata
        /\ PathInParent(last'.arg[1], last'.arg[2]) \notin DOMAIN full_file_path_to_uuid)
           => /\ last'.res = "Ok"
              /\ RenamedFile(last'.arg[1], last'.arg[2],
                             PathInParent(last'.arg[1], last'.arg[2]))
              /\ DOMAIN file_uuid_to_metadata' = DOMAIN file_uuid_to_metadata
              /\ \A other \in DOMAIN file_uuid_to_metadata \ {last'.arg[1]} :
                     file_uuid_to_metadata'[other] = file_uuid_to_metadata[other]
              /\ folder_uuid_to_metadata' = folder_uuid_to_metadata
              /\ full_folder_path_to_uuid' = full_folder_path_to_uuid]_vars

\* The path a file at path gets with the name new_name: path with its last
\* segment replaced
FileSiblingPath(path, new_name) == FolderPathOf(path) \o new_name

FolderCollision == "A folder with the new name already exists in the parent directory"

FileCollision == "A file with this name already exists"

\* C21: rename_folder and rename_file report a path collision only when the
\* new path is bound to an id different from the one being renamed: renaming
\* a folder or file to the name it already has is not a collision and does
\* not fail.
C21_CollisionOnlyWithAnotherId ==
    [][/\ (last'.op = "rename_folder" /\ last'.res = FolderCollision)
           => \E Q \in DOMAIN full_folder_path_to_uuid :
                  /\ Q = SiblingPath(
                             folder_uuid_to_metadata[last'.arg[1]].full_folder_path,
                             last'.arg[2])
                  /\ full_folder_path_to_uuid[Q] # last'.arg[1]
       /\ (last'.op = "rename_file" /\ last'.res = FileCollision)
           => \E Q \in DOMAIN full_file_path_to_uuid :
                  /\ Q = FileSiblingPath(
                             file_uuid_to_metadata[last'.arg[1]].full_file_path,
                             last'.arg[2])
                  /\ full_file_path_to_uuid[Q] # last'.arg[1]]_vars

\* C22: whenever rename_file or delete_file returns an error (file id not
\* stored, malformed stored path, or new path already bound), the folder
\* records, the file records and both path indexes are exactly as before the
\* call.
C22_FileErrorLeavesStore ==
    [][(last'.op \in {"rename_file", "delete_file"} /\ last'.res # "Ok")
           => (last'.res # "Trap" /\ RecordsAndIndexesUnchanged)]_vars

\* rename_file has reported that the new path is bound, to another file than
\* the one to rename
C22_Witness ==
    /\ last.op = "rename_file"
    /\ last.res = FileCollision
    /\ \E Q \in DOMAIN full_file_path_to_uuid :
           /\ Q = FileSiblingPath(file_uuid_to_metadata[last.arg[1]].full_file_path,
                                  last.arg[2])
           /\ full_file_path_to_uuid[Q] # last.arg[1]

\* The suffix of name after its last '.', empty when name has no '.'
SuffixAfterLastDot(name) ==
    IF \E i \in 1..Len(name) : name[i] = "."
    THEN SubSeq(name, SetMax({i \in 1..Len(name) : name[i] = "."}) + 1, Len(name))
    ELSE <<>>

\* The file record the call wrote: the one of the returned id, or of the
\* renamed id
WrittenFile ==
    IF last'.op = "rename_file" THEN last'.arg[1] ELSE last'.ret[1]

\* C24: the extension stored by upsert_file, rename_file and
\* upsert_cloud_file_with_local_sync is the suffix of the file name after its
\* last '.', and is the empty string when the file name contains no '.'.
C24_ExtensionIsSuffixAfterDot ==
    [][(/\ last'.op \in {"upsert_file_to_hash_tables", "rename_file",
                         "upsert_cloud_file_with_local_sync"}
        /\ last'.res = "Ok")
           => file_uuid_to_metadata'[WrittenFile].extension
                  = SuffixAfterLastDot(
                        file_uuid_to_metadata'[WrittenFile].original_file_name)]_vars

\* The text of s before its first "::", all of s when it has none
TextBeforeSeparator(s) ==
    IF \E i \in 1..(Len(s) - 1) : s[i] = ":" /\ s[i + 1] = ":"
    THEN SubSeq(s, 1, SetMin({i \in 1..(Len(s) - 1) : s[i] = ":" /\ s[i + 1] = ":"}) - 1)
    ELSE s

\* The text of s after its first "::", empty when it has none
TextAfterSeparator(s) ==
    SubSeq(s, Len(TextBeforeSeparator(s)) + 3, Len(s))

\* q is p with every ':' replaced by ';', every run of '/' collapsed into one
\* '/' and the leading and trailing '/' stripped: q has none of these left,
\* and p and q are the same but for the '/' and for ';' in place of ':'
SanitizedPortion(p, q) ==
    /\ \A i \in 1..Len(q) : q[i] # ":"
    /\ \A i \in 1..(Len(q) - 1) : ~(q[i] = "/" /\ q[i + 1] = "/")
    /\ q # <<>> => (q[1] # "/" /\ q[Len(q)] # "/")
    /\ SelectSeq(q, LAMBDA c : c # "/")
           = [i \in 1..Len(SelectSeq(p, LAMBDA c : c # "/")) |->
                  IF SelectSeq(p, LAMBDA c : c # "/")[i] = ":" THEN ";"
                  ELSE SelectSeq(p, LAMBDA c : c # "/")[i]]

\* C25: path sanitization keeps the text before the first '::' as the
\* namespace and, in the path portion, replaces every ':' by ';', collapses
\* every run of '/' into a single '/' and strips leading and trailing '/';
\* for every input the result's path portion contains no ':', no '//' and no
\* leading or trailing '/', and sanitizing an already sanitized path returns
\* it unchanged (idempotence).
C25_SanitizeIsIdempotent ==
    /\ last.op = "sanitize_file_path"
           => /\ Len(last.ret[1]) >= Len(TextBeforeSeparator(last.arg[1])) + 2
              /\ SubSeq(last.ret[1], 1, Len(TextBeforeSeparator(last.arg[1])) + 2)
                     = TextBeforeSeparator(last.arg[1]) \o <<":", ":">>
              /\ SanitizedPortion(
                     TextAfterSeparator(last.arg[1]),
                     SubSeq(last.ret[1], Len(TextBeforeSeparator(last.arg[1])) + 3,
                            Len(last.ret[1])))
    /\ last.op = "sanitize_file_path again" => last.ret[1] = last.arg[1]

\* path has no "::", or its path portion is empty after sanitization
InvalidPath(path) ==
    \/ TextBeforeSeparator(path) = path
    \/ TextAfterSeparator(SanitizeFilePath(path)) = <<>>

\* The file path argument of an upsert_file or of a sync of a file
FilePathArgument ==
    IF last'.op = "upsert_file_to_hash_tables" THEN last'.arg[1]
    ELSE last'.arg[2].full_file_path

\* C26: a file path that has no '::' separator or whose path portion is empty
\* after sanitization is rejected by upsert_file and by
\* upsert_cloud_file_with_local_sync with the store unchanged: no file record
\* with an empty name or an empty path portion is ever created.
C26_InvalidPathIsRejected ==
    [][(/\ last'.op \in {"upsert_file_to_hash_tables",
                         "upsert_cloud_file_with_local_sync"}
        /\ last'.op = "upsert_cloud_file_with_local_sync"
               => last'.arg[1] \in DOMAIN file_uuid_to_metadata
        /\ InvalidPath(FilePathArgument))
           => /\ last'.res \notin {"Ok", "Trap"}
              /\ RecordsAndIndexesUnchanged
              /\ \A id \in DOMAIN file_uuid_to_metadata' :
                     /\ file_uuid_to_metadata'[id].original_file_name # <<>>
                     /\ TextAfterSeparator(file_uuid_to_metadata'[id].full_file_path)
                            # <<>>]_vars

\* C27: in every reachable state, every entry (path -> id) of the file path
\* index points to an id that is present in the file record map and whose
\* record's full_file_path equals path; no id is bound at two file paths.
C27_FileIndexMatchesRecords ==
    /\ \A path \in DOMAIN full_file_path_to_uuid :
           /\ full_file_path_to_uuid[path] \in DOMAIN file_uuid_to_metadata
           /\ file_uuid_to_metadata[full_file_path_to_uuid[path]].full_file_path = path
    /\ \A path1, path2 \in DOMAIN full_file_path_to_uuid :
           full_file_path_to_uuid[path1] = full_file_path_to_uuid[path2]
               => path1 = path2

\* A rename_folder has moved the path of a bound file, and a superseded
\* version of a file is stored
C27_Witness ==
    /\ last.op = "rename_folder"
    /\ last.res = "Ok"
    /\ \E path \in DOMAIN full_file_path_to_uuid :
           /\ file_uuid_to_metadata[full_file_path_to_uuid[path]].folder_uuid = last.arg[1]
           /\ file_uuid_to_metadata[full_file_path_to_uuid[path]].prior_version # None
           /\ path = folder_uuid_to_metadata[last.arg[1]].full_folder_path
                         \o file_uuid_to_metadata[full_file_path_to_uuid[path]]
                                .original_file_name

\* C28: in every reachable state, every entry (path -> id) of the folder path
\* index points to an id that is present in the folder record map and whose
\* record's full_folder_path equals path, after any sequence of create_folder,
\* upsert_file, rename_folder, delete_folder and sync-merge operations.
C28_FolderIndexMatchesRecords ==
    \A path \in DOMAIN full_folder_path_to_uuid :
        /\ full_folder_path_to_uuid[path] \in DOMAIN folder_uuid_to_metadata
        /\ folder_uuid_to_metadata[full_folder_path_to_uuid[path]].full_folder_path
               = path

\* C29: in every reachable state, every folder record that has a parent id
\* has its own id in the child-folder list of the folder record with that
\* parent id.
C29_ChildIsListedInParent ==
    \A id \in DOMAIN folder_uuid_to_metadata :
        folder_uuid_to_metadata[id].parent_folder_uuid # None
            => /\ folder_uuid_to_metadata[id].parent_folder_uuid[1]
                      \in DOMAIN folder_uuid_to_metadata
               /\ Contains(folder_uuid_to_metadata[
                               folder_uuid_to_metadata[id].parent_folder_uuid[1]]
                               .subfolder_uuids,
                           id)

\* The folder records of a namespace that have no parent
Roots(loc) ==
    {id \in DOMAIN folder_uuid_to_metadata :
         /\ folder_uuid_to_metadata[id].storage_location = loc
         /\ folder_uuid_to_metadata[id].parent_folder_uuid = None}

\* A namespace is used once a folder or file record is stored in it
Used(loc) ==
    \/ \E id \in DOMAIN folder_uuid_to_metadata :
           folder_uuid_to_metadata[id].storage_location = loc
    \/ \E id \in DOMAIN file_uuid_to_metadata :
           file_uuid_to_metadata[id].storage_location = loc

\* The root of a namespace: no name, the path "<namespace>::", and bound there
IsRoot(id, loc) ==
    /\ folder_uuid_to_metadata[id].original_folder_name = <<>>
    /\ folder_uuid_to_metadata[id].parent_folder_uuid = None
    /\ folder_uuid_to_metadata[id].full_folder_path = Str(loc, <<>>)
    /\ Str(loc, <<>>) \in DOMAIN full_folder_path_to_uuid
    /\ full_folder_path_to_uuid[Str(loc, <<>>)] = id

\* C30: in every reachable state each storage namespace has at most one folder
\* record without a parent, and exactly one once the namespace is used; that
\* root has an empty name, no parent and the full path "<namespace>::", is the
\* folder bound at "<namespace>::", and no step replaces it or adds a second
\* root
C30_OneRootPerNamespace ==
    [][\A loc \in Inputs.locations :
           /\ Cardinality(Roots(loc)') <= 1
           /\ Used(loc)' => Cardinality(Roots(loc)') = 1
           /\ \A id \in Roots(loc)' : IsRoot(id, loc)'
           /\ Roots(loc) # {} => Roots(loc)' = Roots(loc)]_vars

\* The stored file that x names as its next version, x itself, names x back as
\* its prior version, and the other way round
LinkedBothWays(x) ==
    /\ file_uuid_to_metadata[x].next_version # None
           => /\ file_uuid_to_metadata[x].next_version[1] \in DOMAIN file_uuid_to_metadata
              /\ file_uuid_to_metadata[file_uuid_to_metadata[x].next_version[1]].prior_version
                     = Some(x)
    /\ file_uuid_to_metadata[x].prior_version # None
           => /\ file_uuid_to_metadata[x].prior_version[1] \in DOMAIN file_uuid_to_metadata
              /\ file_uuid_to_metadata[file_uuid_to_metadata[x].prior_version[1]].next_version
                     = Some(x)

\* C31: in every reachable state the version links are mutually consistent:
\* if a stored file x has next_version = y then y is stored and
\* y.prior_version = x; if x has prior_version = y then y is stored and
\* y.next_version = x; hence no id is the prior version of two records
C31_VersionLinksAreMutual ==
    /\ \A x \in DOMAIN file_uuid_to_metadata : LinkedBothWays(x)
    /\ \A x, y \in DOMAIN file_uuid_to_metadata :
           (/\ file_uuid_to_metadata[x].prior_version # None
            /\ file_uuid_to_metadata[x].prior_version
                   = file_uuid_to_metadata[y].prior_version) => x = y

\* The ids met by following prior_version from id through stored records, in
\* at most n steps
RECURSIVE PriorWalk(_, _)
PriorWalk(id, n) ==
    IF n = 0 \/ id \notin DOMAIN file_uuid_to_metadata THEN <<>>
    ELSE IF file_uuid_to_metadata[id].prior_version = None THEN <<id>>
    ELSE <<id>> \o PriorWalk(file_uuid_to_metadata[id].prior_version[1], n - 1)

\* C32: in every reachable state, following prior_version from any stored
\* file strictly decreases the version number at every step and never
\* revisits an id, so every walk of a prior chain ends
C32_PriorChainDecreases ==
    \A x \in DOMAIN file_uuid_to_metadata :
        /\ \A y \in DOMAIN file_uuid_to_metadata :
               file_uuid_to_metadata[x].prior_version = Some(y)
                   => file_uuid_to_metadata[y].file_version
                          < file_uuid_to_metadata[x].file_version
        /\ With(PriorWalk(x, Cardinality(DOMAIN file_uuid_to_metadata) + 1), LAMBDA walk :
               /\ Len(walk) <= Cardinality(DOMAIN file_uuid_to_metadata)
               /\ \A i, j \in 1..Len(walk) : walk[i] = walk[j] => i = j)

\* A sync has made a chain of three stored versions
C32_Witness ==
    /\ last.op = "upsert_cloud_file_with_local_sync"
    /\ last.res = "Ok"
    /\ Len(PriorWalk(last.ret[1], 3)) = 3

\* The file ids bound in the file path index
BoundFiles == {full_file_path_to_uuid[p] : p \in DOMAIN full_file_path_to_uuid}

\* C33: in every reachable state every file bound in the file path index is
\* the head of its chain (its next_version is empty), and every stored file
\* whose next_version is set is neither bound in the file path index nor
\* listed in any folder's child-file list
C33_OnlyHeadsAreBoundAndListed ==
    /\ \A id \in BoundFiles \cap DOMAIN file_uuid_to_metadata :
           file_uuid_to_metadata[id].next_version = None
    /\ \A id \in DOMAIN file_uuid_to_metadata :
           file_uuid_to_metadata[id].next_version # None
               => /\ id \notin BoundFiles
                  /\ \A folder \in DOMAIN folder_uuid_to_metadata :
                         ~Contains(folder_uuid_to_metadata[folder].file_uuids, id)

\* The folder ids bound in the folder path index
BoundFolders == {full_folder_path_to_uuid[p] : p \in DOMAIN full_folder_path_to_uuid}

\* C34: Tombstoned is a terminal folder state: once a folder record has its
\* deleted flag set, after every later step the record is still stored, its
\* flag is still set and its id is not bound in the folder path index
C34_TombstonedIsTerminal ==
    [][\A id \in DOMAIN folder_uuid_to_metadata :
           folder_uuid_to_metadata[id].deleted
               => /\ id \in DOMAIN folder_uuid_to_metadata'
                  /\ folder_uuid_to_metadata'[id].deleted
                  /\ id \notin BoundFolders']_vars

\* C35: in every reachable state every folder record whose deleted flag is
\* false is bound in the folder path index at its own full_folder_path
C35_LiveFolderIsBound ==
    \A id \in DOMAIN folder_uuid_to_metadata :
        ~folder_uuid_to_metadata[id].deleted
            => /\ folder_uuid_to_metadata[id].full_folder_path
                      \in DOMAIN full_folder_path_to_uuid
               /\ full_folder_path_to_uuid[folder_uuid_to_metadata[id].full_folder_path]
                      = id

\* The head of the chain of id: the stored record reached by following
\* next_version, in at most n steps, that has no next version
RECURSIVE HeadOf(_, _)
HeadOf(id, n) ==
    IF n = 0 \/ id \notin DOMAIN file_uuid_to_metadata THEN None
    ELSE IF file_uuid_to_metadata[id].next_version = None THEN Some(id)
    ELSE HeadOf(file_uuid_to_metadata[id].next_version[1], n - 1)

\* The stored file id has a next version
Superseded(id) ==
    /\ id \in DOMAIN file_uuid_to_metadata
    /\ file_uuid_to_metadata[id].next_version # None

\* C36: delete_file or rename_file applied to a superseded version of a file
\* leaves the path binding of the chain's head intact: the head is bound at
\* its path after the call if it was before
C36_SupersededCallKeepsHeadBound ==
    [][(/\ last'.op \in {"delete_file", "rename_file"}
        /\ Superseded(last'.arg[1]))
           => \A head \in DOMAIN file_uuid_to_metadata :
                  (/\ HeadOf(last'.arg[1], Cardinality(DOMAIN file_uuid_to_metadata))
                          = Some(head)
                   /\ BoundFile(head))
                      => BoundFile(head)']_vars

\* No value occurs twice in vec
NoDuplicates(vec) == \A i, j \in 1..Len(vec) : vec[i] = vec[j] => i = j

\* The values of vec
Range(vec) == {vec[i] : i \in 1..Len(vec)}

\* C37: in every reachable state every id in the file_uuids of a folder that
\* is not deleted refers to a stored file record whose folder_uuid is that
\* folder, and no id occurs twice in a file_uuids or subfolder_uuids list
C37_ListedFilesAreStored ==
    \A folder \in DOMAIN folder_uuid_to_metadata :
        /\ NoDuplicates(folder_uuid_to_metadata[folder].file_uuids)
        /\ NoDuplicates(folder_uuid_to_metadata[folder].subfolder_uuids)
        /\ ~folder_uuid_to_metadata[folder].deleted
               => \A id \in Range(folder_uuid_to_metadata[folder].file_uuids) :
                      /\ id \in DOMAIN file_uuid_to_metadata
                      /\ file_uuid_to_metadata[id].folder_uuid = folder

\* The folder record made in this step has a path of its own namespace, and
\* the namespace of its parent
FolderInOwnNamespace(id) ==
    /\ WellFormed(folder_uuid_to_metadata'[id].full_folder_path,
                  folder_uuid_to_metadata'[id].storage_location)
    /\ folder_uuid_to_metadata'[id].parent_folder_uuid # None
           => /\ folder_uuid_to_metadata'[id].parent_folder_uuid[1]
                     \in DOMAIN folder_uuid_to_metadata'
              /\ folder_uuid_to_metadata'[folder_uuid_to_metadata'[id].parent_folder_uuid[1]].storage_location
                     = folder_uuid_to_metadata'[id].storage_location

\* The file record made in this step has a path of its own namespace and is
\* filed in a folder whose path is of that namespace
FileInOwnNamespace(id) ==
    /\ WellFormed(file_uuid_to_metadata'[id].full_file_path,
                  file_uuid_to_metadata'[id].storage_location)
    /\ file_uuid_to_metadata'[id].folder_uuid \in DOMAIN folder_uuid_to_metadata'
    /\ WellFormed(folder_uuid_to_metadata'[file_uuid_to_metadata'[id].folder_uuid].full_folder_path,
                  file_uuid_to_metadata'[id].storage_location)

\* C38: the canonical path of each folder and file record created by
\* create_folder or upsert_file starts with "<namespace>::" for the record's
\* own storage_location, a created folder's storage_location equals that of
\* its parent folder, and upsert_file never files a path of one namespace
\* under the root of another
C38_CreatedRecordsKeepNamespace ==
    [][last'.op \in {"create_folder", "upsert_file_to_hash_tables"}
           => /\ \A id \in DOMAIN folder_uuid_to_metadata' \ DOMAIN folder_uuid_to_metadata :
                     FolderInOwnNamespace(id)
              /\ \A id \in DOMAIN file_uuid_to_metadata' \ DOMAIN file_uuid_to_metadata :
                     FileInOwnNamespace(id)]_vars

\* The folders that list id in their subfolder_uuids
ParentsOf(id) ==
    {folder \in DOMAIN folder_uuid_to_metadata :
         Contains(folder_uuid_to_metadata[folder].subfolder_uuids, id)}

\* The folders reached from the folders of S through subfolder_uuids, in at
\* most n steps
RECURSIVE Descendants(_, _)
Descendants(S, n) ==
    IF n = 0 THEN S
    ELSE Descendants(
             S \cup UNION {Range(folder_uuid_to_metadata[folder].subfolder_uuids) :
                               folder \in S \cap DOMAIN folder_uuid_to_metadata},
             n - 1)

\* C39: in every reachable state the child-folder relation is a forest: each
\* folder id occurs in at most one folder's subfolder_uuids and never in a
\* list of its own subtree, so the recursions of delete_folder and of
\* update_subfolder_paths visit each folder at most once
C39_ChildFoldersFormForest ==
    \A id \in DOMAIN folder_uuid_to_metadata :
        /\ Cardinality(ParentsOf(id)) <= 1
        /\ id \notin Descendants(Range(folder_uuid_to_metadata[id].subfolder_uuids),
                                 Cardinality(DOMAIN folder_uuid_to_metadata))

-----------------------------------------------------------------------------
(* Properties of the queries *)

\* The stored records of the ids of a list, in list order
Resolvable(uuids, records) ==
    LET stored == SelectSeq(uuids, LAMBDA uuid : uuid \in DOMAIN records)
    IN [i \in 1..Len(stored) |-> records[stored[i]]]

BoundFolder(path) ==
    /\ path \in DOMAIN full_folder_path_to_uuid
    /\ full_folder_path_to_uuid[path] \in DOMAIN folder_uuid_to_metadata

ChildFolders(path) ==
    Resolvable(folder_uuid_to_metadata[full_folder_path_to_uuid[path]].subfolder_uuids,
               folder_uuid_to_metadata)

ChildFiles(path) ==
    Resolvable(folder_uuid_to_metadata[full_folder_path_to_uuid[path]].file_uuids,
               file_uuid_to_metadata)

\* |S|
Children(path) == Len(ChildFolders(path)) + Len(ChildFiles(path))

Min(a, b) == IF a < b THEN a ELSE b

Max(a, b) == IF a < b THEN b ELSE a

\* after <= n, for a u32 after
AtMost(after, n) == after[2] = 0 /\ after[1] <= n

\* min(after + limit, n), for u32 limit and after <= n < 2^16
SliceEnd(limit, after, n) == IF limit[2] > 0 THEN n ELSE Min(after[1] + limit[1], n)

\* The page is S[after .. end), its folders first
PageIsSlice(page, path, after, end) ==
    /\ page.folders = SubSeq(ChildFolders(path), after + 1, Min(end, Len(ChildFolders(path))))
    /\ page.files = SubSeq(ChildFiles(path),
                           Max(after, Len(ChildFolders(path))) - Len(ChildFolders(path)) + 1,
                           end - Len(ChildFolders(path)))
    /\ page.total = end - after
    /\ page.has_more = (end < Children(path))

Fetched == last.op = "fetch_files_at_folder_path"

\* C14: for a bound folder path, every limit and every after <= |S|, the
\* query returns the slice S[after .. min(after + limit, |S|)) of the folder's
\* resolvable child folders followed by its resolvable child files, split
\* into folders and files in that order, with total the number of returned
\* elements and has_more true exactly when min(after + limit, |S|) < |S|.
C14_FetchReturnsSlice ==
    (Fetched /\ BoundFolder(last.arg[1]) /\ AtMost(last.arg[3], Children(last.arg[1])))
    => /\ last.res = "Ok"
       /\ PageIsSlice(last.ret[1], last.arg[1], last.arg[3][1],
                      SliceEnd(last.arg[2], last.arg[3], Children(last.arg[1])))

\* after > n, for a u32 after
Beyond(after, n) == after[2] > 0 \/ after[1] > n

\* C15: the query never fails or aborts: for a folder path that is not bound
\* it returns the empty page (no folders, no files, total 0, has_more false),
\* and for a bound folder with after greater than the number of its children
\* it returns an empty slice with total 0 and has_more false.
C15_FetchNeverFails ==
    Fetched
    => /\ last.res = "Ok"
       /\ (~BoundFolder(last.arg[1])
           \/ Beyond(last.arg[3], Children(last.arg[1])))
          => last.ret = Some(EmptyFetchFilesResult)

-----------------------------------------------------------------------------
(* Properties of the factory canister *)

\* The drives created for caller: the canisters installed with caller as the
\* owner of the drive
DrivesOf(caller) ==
    {c \in DOMAIN canisters :
         canisters[c].arg # None /\ canisters[c].arg[1][1] = caller}

\* The entries of drives_directory that record a drive of caller
RecordedDrivesOf(caller) ==
    {index \in DOMAIN drives_directory : drives_directory[index] \in DrivesOf(caller)}

\* C23: at most one drive instance is ever provisioned and registered per
\* owning identity: for every interleaving of create_drive calls, including
\* two calls of one caller that overlap while one is suspended awaiting
\* canister creation or code installation, no caller ends up with more than
\* one drive created for it or recorded in drives_directory.
C23_OneDrivePerOwner ==
    \A caller \in DriveCallers :
        /\ Cardinality(DrivesOf(caller)) <= 1
        /\ Cardinality(RecordedDrivesOf(caller)) <= 1


\* The drives recorded in drives_directory
RecordedDrives == {drives_directory[index] : index \in DOMAIN drives_directory}

\* The three parts of the registry agree
RegistryAgrees ==
    /\ DOMAIN drives_directory = 1..drives_counter
    /\ Cardinality(DOMAIN drives_directory) = drives_counter
    /\ \A user \in DOMAIN user_drive_directory :
           user_drive_directory[user] \in RecordedDrives

\* The create_drive calls that this step starts or moves on
SteppedCalls ==
    {i \in DOMAIN drive_calls' : i \notin DOMAIN drive_calls \/ drive_calls'[i].at # drive_calls[i].at}

\* C40: in every reachable state of the factory, drives_counter equals the
\* number of entries of drives_directory, whose keys are exactly
\* 1..drives_counter, and every drive recorded in user_drive_directory is also
\* a value of drives_directory; a step of a create_drive call that is rejected,
\* or whose canister creation or code installation fails, changes none of the
\* three
C40_RegistryAgreesAndFailuresChangeNothing ==
    [][/\ RegistryAgrees'
       /\ \A i \in SteppedCalls :
              drive_calls'[i].ret = None
                  => UNCHANGED <<drives_counter, drives_directory, user_drive_directory>>]_vars

\* Two drives are recorded, and a call has been rejected or has failed
C40_Witness ==
    /\ drives_counter = 2
    /\ \E i \in DOMAIN drive_calls :
           drive_calls[i].at = "done" /\ drive_calls[i].ret = None

====
